---- MODULE Spec2Model ----
(***************************************************************************)
(* A model of the wenum pipeline engine (src/wenum/fuzzqueues.py,          *)
(* core.py, runtime_session.py): the stage queues, the asynchronous HTTP   *)
(* stage, routing, recursion, redirects, the plugin stage's seed gating    *)
(* and the filter stages.                                                  *)
(*                                                                         *)
(* URLs are sequences of path segments below http://h/ ; a trailing ""     *)
(* segment is a trailing slash: <<"">> is "/", <<"a">> is "/a",            *)
(* <<"a","">> is "/a/".  A seed URL "http://h/<base>/FUZZ" is its base.    *)
(***************************************************************************)
EXTENDS Integers, Sequences, FiniteSets, TLC

VARIABLES
    options,        \* the session options read by the stages (fixed after Init)
    qmanager,       \* QueueManager: the ordered stage names
    q,              \* stage name -> its input priority queue
    pool,           \* HttpPool: requests handed to the pool, in hand-over order
    results,        \* items delivered to the user-visible results queue
    discardq,       \* items routed to the discard channel
    stats,          \* FuzzStats
    cache,          \* HttpCache: category -> set of keys
    level,          \* FuzzSession.current_priority_level
    seedst,         \* SeedQueue worker: position, compiled_seed, dictionary index
    recst,          \* RecursiveQ worker: position and the result in hand
    local,          \* attributes of the other stage objects (filters, plugins,
                    \* HttpQueue.pause: the event is set while the job runs)
    hist            \* observation only: what was emitted, processed and routed

vars == <<options, qmanager, q, pool, results, discardq, stats, cache, level,
          seedst, recst, local, hist>>

\* ------------------------------------------------------------------ bounds
\* requests the HTTP pool runs at once (option "concurrent")
Concurrent == 2
\* option "rlevel": the user recursion depth
MaxRlevel == 1
\* items the stages upstream of a stage under study hand to it
MaxFed == 4
\* occurrences of the recurring response; other results; results in the stage
\* inputs at once, in the study of the filter stages
MaxRepeat == 11
MaxOther == 1
MaxInFlight == 1
\* setting general.concurrent_plugins: the PluginExecutors of the plugin stage
ConcurrentPlugins == 2
\* redirects the server chains behind a requeued request
MaxChain == 2
\* requeued requests the study of the requeue limit starts from
MaxRequeued == 1
\* results the transport stage hands to the recursive stage under study
MaxResponses == 2
\* operands of a filter expression; evaluations of it on one result
MaxOperands == 3
MaxEvaluations == 2

\* ------------------------------------------------------- program constants
PRIORITY_STEP == 10

\* facade.ERROR_CODE: the code of a request that failed
ERROR_CODE == -1
\* AutofilterQ: FixSizeOrderedDict(maximum_length=15)
maximum_length == 15
\* AutofilterQ.update_response_tracker: hits that put a response in the filter
RecurringHits == 10
\* PluginExecutor.process_results: requeue_limit
requeue_limit == 15

\* the wordlist all seeds iterate
Words == <<"a">>

STARTSEED == "STARTSEED"
SEED == "SEED"
BACKFEED == "BACKFEED"
RESULT == "RESULT"
ENDSEED == "ENDSEED"

\* ------------------------------------------------------------- data model
Last(s) == s[Len(s)]
Front(s) == SubSeq(s, 1, Len(s) - 1)

Max(a, b) == IF a >= b THEN a ELSE b
Min(a, b) == IF a <= b THEN a ELSE b

\* FuzzItem / FuzzResult: the attributes the stages read
Item(type, url, priority, rlevel, backfeed_level, is_baseline) ==
    [type |-> type, url |-> url, priority |-> priority, rlevel |-> rlevel,
     backfeed_level |-> backfeed_level, is_baseline |-> is_baseline,
     plugin_rlevel |-> 0, from_plugin |-> FALSE, discarded |-> FALSE,
     method |-> "GET", code |-> 0, lines |-> 0, words |-> 0,
     exception |-> FALSE, host |-> "h"]

\* the seed compiled from the options: http://h/FUZZ
InitialSeed == Item(SEED, <<>>, PRIORITY_STEP, 0, 0, FALSE)

\* the request of a seed for one payload word ("" is the directory root)
fuzzres_from_options_and_dict(seed, word) ==
    [seed EXCEPT !.type = RESULT, !.url = @ \o <<word>>, !.code = 0]

\* the baseline request compiled from the options
compiled_baseline == Item(RESULT, <<"BBB">>, PRIORITY_STEP, 0, 0, TRUE)

\* ------------------------------------------------------------ server side
\* options.chain: /a, /a/r, /a/r/r, ... answer 302 -> path + "/r", for the
\* first options.chain of them
InChain(u) ==
    /\ u # <<>> /\ Len(u) <= options.chain
    /\ u[1] = "a" /\ \A i \in 2..Len(u) : u[i] = "r"

\* options.fps: the directories below which the server answers every path
\* alike, with 200 and the same body
CatchAll(u) ==
    \E d \in options.fps : Len(d) < Len(u) /\ SubSeq(u, 1, Len(d)) = d

\* options.dirs: the paths the server answers with 301 -> path + "/"
Code(u) == IF CatchAll(u) THEN 200
           ELSE IF u \in options.dirs THEN 301
           ELSE IF InChain(u) THEN 302
           ELSE IF Last(u) = "" THEN 200 ELSE 404

Location(u) == IF u \in options.dirs THEN u \o <<"">> ELSE u \o <<"r">>

\* Request.request_found_directory
request_found_directory(u) == Last(u) = "" \/ Code(u) = 301

\* Request.parse_recursion_url: the base of the seed "<url>/FUZZ"
parse_recursion_url(u) == IF Last(u) = "" THEN Front(u) ELSE u

\* --------------------------------------------------- MyPriorityQueue
\* entries are kept ordered by key; equal keys keep insertion order
PutKey(s, k, it) ==
    LET n == Cardinality({i \in 1..Len(s) : s[i].k <= k})
    IN SubSeq(s, 1, n) \o <<[k |-> k, it |-> it]>> \o SubSeq(s, n + 1, Len(s))

MaxKey(s) == IF s = <<>> THEN 0 ELSE s[Len(s)].k

put(s, it) == PutKey(s, it.priority, it)
put_first(s, it) == PutKey(s, 0, it)
put_last(s, it) == PutKey(s, Max(MaxKey(s), it.priority), it)

\* ------------------------------------------------------ FuzzQueue plumbing
Index(name) == CHOOSE i \in 1..Len(qmanager) : qmanager[i] = name
NextStage(name) == qmanager[Index(name) + 1]

Head1(name) == Head(q[name]).it
Dequeue(Q, name) == [Q EXCEPT ![name] = Tail(@)]

\* FuzzQueue.send / send_first / send_last into the next stage's input
SendQ(Q, name, it) == [Q EXCEPT ![NextStage(name)] = put(@, it)]
SendFirstQ(Q, name, it) == [Q EXCEPT ![NextStage(name)] = put_first(@, it)]
SendLastQ(Q, name, it) == [Q EXCEPT ![NextStage(name)] = put_last(@, it)]

\* FuzzQueue._throw: the exception goes first into the results queue as an
\* item of type ERROR
FuzzError(fuzz_result) == [fuzz_result EXCEPT !.type = "ERROR"]

\* what FuzzQueue.run does with an item the stage does not process
ForwardQ(Q, name, it) ==
    IF it.type = ENDSEED THEN SendLastQ(Q, name, it) ELSE SendQ(Q, name, it)

\* HttpCache.check_cache: prior membership
cached(category, key) == key \in cache[category]
cache_add(C, category, key) == [C EXCEPT ![category] = @ \cup {key}]

\* FuzzStats
new_seed(S) == [S EXCEPT !.pending_seeds = @ + 1]
new_backfeed(S) == [S EXCEPT !.backfeed = @ + 1]
\* every RESULT handed to the results queue is counted as processed
mark_processed(S, it) ==
    IF it.type = RESULT THEN [S EXCEPT !.processed = @ + 1] ELSE S

\* =================================================================== Init
NoItem == Item("NONE", <<>>, 0, 0, 0, FALSE)

\* options.get: an option the session does not hold is not set
options_get(o, name) == IF name \in DOMAIN o THEN o[name] ELSE FALSE

\* variant of move_to_end: the stage stays where it was added
move_to_end_stays(s, name) == s

\* QueueManager.move_to_end; the KeyError for a stage that is not in the
\* pipeline is ignored by Fuzzer.__init__
move_to_end(s, name) ==
    IF \E i \in 1..Len(s) : s[i] = name
    THEN SelectSeq(s, LAMBDA n : n # name) \o <<name>>
    ELSE s

\* Fuzzer.__init__: the stages in construction order; with hard_filter the
\* plugin, recursive and routing stages are moved behind the filter stages
\* before the printer stages are added
BuildPipeline(o) ==
    LET added ==
            <<"seed_queue">>
            \o (IF o.prefilter # <<>> THEN <<"slice_queue_0">> ELSE <<>>)
            \o <<"transport_queue">>
            \o (IF o.follow_redirects THEN <<"redirects_queue">> ELSE <<>>)
            \o (IF o.auto_filter THEN <<"autofilter_queue">> ELSE <<>>)
            \o (IF o.script # "" THEN <<"plugins_queue">> ELSE <<>>)
            \o (IF o.rlevel > 0 THEN <<"recursive_queue">> ELSE <<>>)
            \o (IF (o.script # "" \/ o.rlevel > 0) /\ o.transport = "http/s"
                THEN <<"routing_queue">> ELSE <<>>)
            \o (IF o.filter # <<>> THEN <<"filter_queue">> ELSE <<>>)
            \o (IF options_get(o, "simple_filter")
                THEN <<"simple_filter_queue">> ELSE <<>>)
        moved ==
            IF options_get(o, "hard_filter")
            THEN move_to_end(move_to_end(move_to_end(added, "plugins_queue"),
                                         "recursive_queue"), "routing_queue")
            ELSE added
    IN moved
       \o (IF options_get(o, "compiled_printer")
           THEN <<"printer_queue">> ELSE <<>>)
       \o <<"printer_cli">>

StageNames == {"seed_queue", "slice_queue_0", "transport_queue",
               "redirects_queue", "autofilter_queue", "plugins_queue",
               "recursive_queue", "routing_queue", "filter_queue",
               "simple_filter_queue", "printer_queue", "printer_cli"}

\* QueueManager.start(): one STARTSEED item at the head of the pipeline
StartQueues ==
    [n \in StageNames |->
        IF n = "seed_queue"
        THEN <<[k |-> 0, it |-> Item(STARTSEED, <<>>, 0, 0, 0, FALSE)]>>
        ELSE <<>>]

InitWith(o) ==
    /\ options = o
    /\ qmanager = BuildPipeline(o)
    /\ q = StartQueues
    /\ pool = <<>>
    /\ results = {}
    /\ discardq = <<>>
    /\ stats = [pending_seeds |-> 0, pending_fuzz |-> 0, processed |-> 0,
                backfeed |-> 0, seed_list |-> <<>>, cancelled |-> FALSE]
    /\ cache = [processed |-> {}, recursion |-> {}]
    /\ level = PRIORITY_STEP
    /\ seedst = [pc |-> "idle", seed |-> InitialSeed, idx |-> 0]
    /\ recst = [pc |-> "idle", cur |-> NoItem]
    /\ local = [filter_string |-> <<>>, response_tracker_dict |-> <<>>,
                pause |-> TRUE, disabled |-> FALSE, kbase |-> {},
                exit_job |-> FALSE, fuzz_result |-> NoItem,
                executors |-> [e \in 1..ConcurrentPlugins |->
                                  [pc |-> "idle", queue |-> <<>>,
                                   cur |-> NoItem, outs |-> <<>>,
                                   queued_dict |-> [queued_requests |-> 0, queued_seeds |-> 0],
                                   sent |-> [requests |-> 0, seeds |-> 0]]]]
    /\ hist = [emitted |-> {}, seen |-> {}, routed |-> <<>>, fed |-> 0,
               rep |-> 0, auto |-> <<>>, seeds |-> <<>>, backfeeds |-> {},
               probe |-> <<>>, runs |-> <<>>, information |-> <<>>,
               cancel_job |-> "none"]

\* ============================================================== SeedQueue
SeedOut == NextStage("seed_queue")

\* variant of SeedMaySend: the output is never found too long
SeedMaySend_unrestrained == TRUE

\* SeedQueue.send: wait while the output holds more than concurrent * 5 items
SeedMaySend == ~(Len(q[SeedOut]) > options.concurrent * 5)

\* SeedQueue.process up to send_baseline
\* variant of add_initial_recursion_to_cache: the cache is left as it is
add_no_initial_recursion(c) == c

\* SeedQueue.add_initial_recursion_to_cache: the key of the base directory
add_initial_recursion_to_cache(c) == cache_add(c, "recursion", <<>>)

\* with limitrequests set and more requests queued in the pool than
\* LIMITREQUESTS_THRESHOLD the seed is ended without its dictionary
SeedQueue_process ==
    /\ seedst.pc = "idle"
    /\ q["seed_queue"] # <<>>
    /\ LET it == Head1("seed_queue")
           S1 == IF it.type = STARTSEED THEN new_seed(stats) ELSE stats
           limit_reached ==
               /\ options.limitrequests
               /\ Len(pool) > options.LIMITREQUESTS_THRESHOLD
           sendbase == /\ options.baseline /\ S1.pending_seeds = 1
                       /\ ~limit_reached
       IN /\ it.type \in {STARTSEED, SEED}
          /\ cache' = IF it.type = STARTSEED
                      THEN add_initial_recursion_to_cache(cache)
                      ELSE cache
          /\ stats' = IF sendbase
                      THEN [S1 EXCEPT !.pending_fuzz = @ + 1]
                      ELSE S1
          /\ q' = IF sendbase
                  THEN SendFirstQ(Dequeue(q, "seed_queue"), "seed_queue",
                                  compiled_baseline)
                  ELSE Dequeue(q, "seed_queue")
          /\ seedst' = [pc |-> IF sendbase THEN "baseline"
                               ELSE IF limit_reached THEN "end" ELSE "root",
                        seed |-> IF it.type = SEED THEN it ELSE seedst.seed,
                        idx |-> 0]
    /\ UNCHANGED <<options, qmanager, local, pool, results, discardq, level, recst, hist>>

\* variant of send_baseline: the dictionary follows the baseline at once
SeedQueue_send_baseline_unawaited ==
    /\ seedst.pc = "baseline"
    /\ seedst' = [seedst EXCEPT !.pc = "root"]
    /\ UNCHANGED <<options, qmanager, local, q, pool, results, discardq, stats, cache,
                   level, recst, hist>>

\* SeedQueue.send_baseline: the busy wait for the baseline to be processed
SeedQueue_send_baseline ==
    /\ seedst.pc = "baseline"
    /\ stats.processed # 0 \/ stats.cancelled
    /\ seedst' = [seedst EXCEPT !.pc = "root"]
    /\ UNCHANGED <<options, qmanager, local, q, pool, results, discardq, stats, cache,
                   level, recst, hist>>

\* variant of SeedEmit: the request is sent whatever the cache holds
SeedEmit_unchecked(word, pc2, idx2) ==
    LET fr == fuzzres_from_options_and_dict(seedst.seed, word)
    IN /\ SeedMaySend
       /\ cache' = cache_add(cache, "processed", fr.url)
       /\ stats' = [stats EXCEPT !.pending_fuzz = @ + 1]
       /\ q' = SendQ(q, "seed_queue", fr)
       /\ discardq' = discardq
       /\ hist' = [hist EXCEPT !.emitted = @ \cup {fr}]
       /\ seedst' = [seedst EXCEPT !.pc = pc2, !.idx = idx2]

\* one request of send_dictionary: cache check, pending_fuzz, and
\* SeedQueue.send, which hands a discarded item to the discard queue and
\* puts any other item on the output once the output is short enough
SeedEmit(word, pc2, idx2) ==
    LET fr == fuzzres_from_options_and_dict(seedst.seed, word)
    IN IF cached("processed", fr.url)
       THEN /\ UNCHANGED <<q, discardq, stats, cache, hist>>
            /\ seedst' = [seedst EXCEPT !.pc = pc2, !.idx = idx2]
       ELSE /\ fr.discarded \/ SeedMaySend
            /\ cache' = cache_add(cache, "processed", fr.url)
            /\ stats' = [stats EXCEPT !.pending_fuzz = @ + 1]
            /\ q' = IF fr.discarded THEN q ELSE SendQ(q, "seed_queue", fr)
            /\ discardq' = IF fr.discarded THEN Append(discardq, fr)
                           ELSE discardq
            /\ hist' = [hist EXCEPT !.emitted = @ \cup {fr}]
            /\ seedst' = [seedst EXCEPT !.pc = pc2, !.idx = idx2]

\* send_dictionary: the request to the base of the FUZZ path
SeedQueue_send_root ==
    /\ seedst.pc = "root"
    /\ SeedEmit("", "dict", 1)
    /\ UNCHANGED <<options, qmanager, local, pool, results, level, recst>>

\* send_dictionary: one turn of the wordlist loop
SeedQueue_send_dictionary ==
    /\ seedst.pc = "dict"
    /\ seedst.idx <= Len(options.words)
    /\ ~stats.cancelled
    /\ SeedEmit(options.words[seedst.idx], "dict", seedst.idx + 1)
    /\ UNCHANGED <<options, qmanager, local, pool, results, level, recst>>

\* variant of the empty dictionary: the seed is ended as after a wordlist
SeedQueue_empty_dictionary_ends_seed ==
    /\ seedst.pc = "dict"
    /\ Len(options.words) = 0
    /\ q' = SendLastQ(q, "seed_queue",
                      Item(ENDSEED, <<>>, seedst.seed.priority, 0, 0, FALSE))
    /\ seedst' = [seedst EXCEPT !.pc = "idle"]
    /\ UNCHANGED <<options, qmanager, local, pool, results, discardq, stats, cache,
                   level, recst, hist>>

\* send_dictionary with a dictionary that has no first word: it raises
\* FuzzExceptBadOptions after the request to the base of the FUZZ path, before
\* the loop and before end_seed; the exception of a stage's process goes
\* into the results queue as an item of type ERROR
SeedQueue_empty_dictionary ==
    /\ seedst.pc = "dict"
    /\ Len(options.words) = 0
    /\ results' = results \cup {FuzzError([seedst.seed EXCEPT !.exception = TRUE])}
    /\ seedst' = [seedst EXCEPT !.pc = "idle"]
    /\ UNCHANGED <<options, qmanager, local, q, pool, discardq, stats, cache,
                   level, recst, hist>>

\* variant of end_seed: the ENDSEED keeps the priority FuzzItem gives it
SeedQueue_end_seed_unprioritised ==
    /\ \/ /\ seedst.pc = "dict"
          /\ Len(options.words) > 0
          /\ seedst.idx > Len(options.words) \/ stats.cancelled
       \/ seedst.pc = "end"
    /\ q' = SendLastQ(q, "seed_queue", Item(ENDSEED, <<>>, 0, 0, 0, FALSE))
    /\ seedst' = [seedst EXCEPT !.pc = "idle"]
    /\ UNCHANGED <<options, qmanager, local, pool, results, discardq, stats, cache,
                   level, recst, hist>>

\* SeedQueue.end_seed
SeedQueue_end_seed ==
    /\ \/ /\ seedst.pc = "dict"
          /\ Len(options.words) > 0
          /\ seedst.idx > Len(options.words) \/ stats.cancelled
       \/ seedst.pc = "end"
    /\ q' = SendLastQ(q, "seed_queue",
                      Item(ENDSEED, <<>>, seedst.seed.priority, 0, 0, FALSE))
    /\ seedst' = [seedst EXCEPT !.pc = "idle"]
    /\ UNCHANGED <<options, qmanager, local, pool, results, discardq, stats, cache,
                   level, recst, hist>>

\* ============================================================== HttpQueue
\* HttpQueue.process for RESULT and BACKFEED, which waits for the pause event;
\* other items are forwarded, but for the poison value (NoItem)
HttpQueue_process ==
    /\ options.transport = "http/s"
    /\ q["transport_queue"] # <<>>
    /\ Head1("transport_queue") # NoItem
    /\ LET it == Head1("transport_queue")
       IN IF it.type \in {RESULT, BACKFEED}
          THEN /\ local.pause
               /\ pool' = Append(pool, it)
               /\ q' = Dequeue(q, "transport_queue")
          ELSE /\ pool' = pool
               /\ q' = ForwardQ(Dequeue(q, "transport_queue"),
                                "transport_queue", it)
    /\ UNCHANGED <<options, qmanager, local, results, discardq, stats, cache, level,
                   seedst, recst, hist>>

\* HttpPool: any of the requests being run completes; it comes back a RESULT
PoolRunning == 1..Min(options.concurrent, Len(pool))
PoolRemove(i) == SubSeq(pool, 1, i - 1) \o SubSeq(pool, i + 1, Len(pool))

\* the result the pool returns for a request: options.failing are the URLs
\* whose request fails in transport
Response(req) ==
    IF req.url \in options.failing
    THEN [req EXCEPT !.type = RESULT, !.code = ERROR_CODE, !.exception = TRUE]
    ELSE [req EXCEPT !.type = RESULT, !.code = Code(req.url)]

\* variant of pool_after: the request is enqueued again whatever requeue says
pool_after_enqueue(i, requeue) == Append(PoolRemove(i), pool[i])

\* the pool after iter_results gave (pool[i], requeue) and the transport stage
\* enqueued the request again if requeue is set
pool_after(i, requeue) ==
    IF requeue THEN Append(PoolRemove(i), pool[i]) ELSE PoolRemove(i)

\* variant of throws: every exception is thrown
throws_any_exception(fuzz_result) == fuzz_result.exception

\* __read_http_results: the test before self._throw
throws(fuzz_result) == fuzz_result.exception /\ ~options.scanmode

\* HttpQueue.__read_http_results: one (result, requeue) pair of the pool; the
\* request goes back into the pool, or its result is sent downstream or thrown
HttpQueue_read_http_results ==
    /\ \E i \in PoolRunning, requeue \in BOOLEAN :
          IF requeue
          THEN /\ pool' = pool_after(i, requeue)
               /\ pool' # pool
               /\ UNCHANGED <<q, results>>
          ELSE /\ pool' = pool_after(i, requeue)
               /\ IF throws(Response(pool[i]))
                  THEN /\ results' = results \cup {FuzzError(Response(pool[i]))}
                       /\ q' = q
                  ELSE /\ q' = SendQ(q, "transport_queue", Response(pool[i]))
                       /\ results' = results
    /\ UNCHANGED <<options, qmanager, local, discardq, stats, cache, level,
                   seedst, recst, hist>>

\* ============================================================== RedirectQ
\* resfactory "fuzzres_from_fuzzres": the request that follows up a result
fuzzres_from_fuzzres(fr, target) ==
    [fr EXCEPT !.type = BACKFEED, !.url = target, !.from_plugin = FALSE,
               !.backfeed_level = @ + 1, !.is_baseline = FALSE, !.code = 0]

\* Request.check_in_scope: host-based, the target has the host of the request;
\* domain-based, the two hosts have the same domain (s.h is a host of domain h)
check_in_scope(fr, target_host, domain_based) ==
    LET domain(host) == IF host = "s.h" THEN "h" ELSE host
    IN IF domain_based THEN domain(target_host) = domain(fr.host)
       ELSE target_host = fr.host

\* variant of in_scope: every target is taken to be in scope
in_scope_any_host(fr, target_host) == TRUE

\* the scope check of RedirectQ.enqueue_link and of
\* PluginExecutor.process_results on the target of a link found in fr
in_scope(fr, target_host) ==
    check_in_scope(fr, target_host, options.domain_scope)

\* RedirectQ.process with enqueue_link for the Location header; the links of
\* the server name the host options.link_host
RedirectQ_process ==
    /\ q["redirects_queue"] # <<>>
    /\ LET it == Head1("redirects_queue")
           Q1 == Dequeue(q, "redirects_queue")
           target == Location(it.url)
           follow == /\ it.type = RESULT
                     /\ 300 <= it.code /\ it.code < 400
                     /\ in_scope(it, options.link_host)
                     /\ ~cached("processed", target)
       IN /\ q' = IF it.type # RESULT
                  THEN ForwardQ(Q1, "redirects_queue", it)
                  ELSE IF follow
                  THEN SendQ(SendQ(Q1, "redirects_queue",
                                   [fuzzres_from_fuzzres(it, target)
                                       EXCEPT !.host = options.link_host]),
                             "redirects_queue", it)
                  ELSE SendQ(Q1, "redirects_queue", it)
          /\ cache' = IF follow THEN cache_add(cache, "processed", target)
                      ELSE cache
          /\ hist' = [hist EXCEPT !.seen = @ \cup {it}]
    /\ UNCHANGED <<options, qmanager, local, pool, results, discardq, stats, level,
                   seedst, recst>>

\* ============================================================== RecursiveQ
\* resfactory "seed_from_recursion"
seed_from_recursion(fr) ==
    [fr EXCEPT !.type = SEED, !.url = parse_recursion_url(fr.url),
               !.rlevel = @ + 1, !.is_baseline = FALSE]

\* variant of max_recursion_condition: the user depth limit for every result
max_rlevel_condition(fr) == fr.rlevel >= options.rlevel

\* RecursiveQ.max_recursion_condition
max_recursion_condition(fr) ==
    IF fr.from_plugin /\ fr.plugin_rlevel >= options.plugin_rlevel THEN TRUE
    ELSE IF ~fr.from_plugin /\ fr.rlevel >= options.rlevel THEN TRUE
    ELSE FALSE

\* RecursiveQ._get_response_tuple: (status code, word count) of the answer to
\* a junk request, or the exception it raises
Failed == [ok |-> FALSE, code |-> 0, words |-> 0]
Answer(code, words) == [ok |-> TRUE, code |-> code, words |-> words]

\* the junk requests false_positive_hit sends: the second only when the first
\* answer has the candidate's code and another word count
junk_requests(seed, junk1) ==
    IF \/ ~junk1.ok
       \/ junk1.code = seed.code /\ junk1.words = seed.words
       \/ junk1.code # seed.code
    THEN <<"thisdoesnotexist123">>
    ELSE <<"thisdoesnotexist123", "thisalsodoesnotexist123">>

\* variant of false_positive_hit: two junk answers that agree make a false
\* positive
false_positive_hit_when_junk_agrees(seed, junk1, junk2) ==
    IF ~junk1.ok THEN FALSE
    ELSE IF junk1.code = seed.code /\ junk1.words = seed.words THEN TRUE
    ELSE IF junk1.code # seed.code THEN FALSE
    ELSE IF ~junk2.ok THEN FALSE
    ELSE junk2.code = junk1.code /\ junk2.words = junk1.words

\* RecursiveQ.false_positive_hit: junk1 and junk2 are the outcomes of the
\* first and the second junk request
false_positive_hit(seed, junk1, junk2) ==
    IF ~junk1.ok THEN FALSE
    ELSE IF junk1.code = seed.code /\ junk1.words = seed.words THEN TRUE
    ELSE IF junk1.code # seed.code THEN FALSE
    ELSE IF ~junk2.ok THEN FALSE
    ELSE IF junk2.code = junk1.code /\ junk2.words = junk1.words THEN FALSE
    ELSE TRUE

\* the server's answer to the junk request below the directory of a seed
get_response_tuple(seed, check_string) ==
    Answer(Code(seed.url \o <<check_string>>), 0)

\* false_positive_hit against the server
seed_false_positive(seed) ==
    false_positive_hit(seed,
                       get_response_tuple(seed, "thisdoesnotexist123"),
                       get_response_tuple(seed, "thisalsodoesnotexist123"))

\* RecursiveQ.process up to the final cache check
RecursiveQ_process ==
    /\ recst.pc = "idle"
    /\ q["recursive_queue"] # <<>>
    /\ LET it == Head1("recursive_queue")
           Q1 == Dequeue(q, "recursive_queue")
           seed == seed_from_recursion(it)
       IN IF it.type # RESULT
          THEN /\ q' = ForwardQ(Q1, "recursive_queue", it)
               /\ recst' = recst
          ELSE IF \/ ~request_found_directory(it.url)
                  \/ cached("recursion", parse_recursion_url(it.url))
                  \/ /\ options.limitrequests
                     /\ Len(pool) > options.LIMITREQUESTS_THRESHOLD
                  \/ max_recursion_condition(it)
                  \/ seed_false_positive(seed)
          THEN /\ q' = SendQ(Q1, "recursive_queue", it)
               /\ recst' = recst
          ELSE /\ q' = Q1
               /\ recst' = [pc |-> "gate", cur |-> it]
    /\ UNCHANGED <<options, qmanager, local, pool, results, discardq, stats, cache,
                   level, seedst, hist>>

\* the final check_cache(recursion_url, update=True): the membership test
RecursiveQ_check_cache ==
    /\ recst.pc = "gate"
    /\ IF cached("recursion", parse_recursion_url(recst.cur.url))
       THEN /\ q' = SendQ(q, "recursive_queue", recst.cur)
            /\ recst' = [pc |-> "idle", cur |-> NoItem]
       ELSE /\ q' = q
            /\ recst' = [recst EXCEPT !.pc = "send"]
    /\ UNCHANGED <<options, qmanager, local, pool, results, discardq, stats, cache,
                   level, seedst, hist>>

\* check_cache inserts the key; the seed, then the result, are sent
RecursiveQ_send_seed ==
    /\ recst.pc = "send"
    /\ cache' = cache_add(cache, "recursion", parse_recursion_url(recst.cur.url))
    /\ q' = SendQ(SendQ(q, "recursive_queue", seed_from_recursion(recst.cur)),
                  "recursive_queue", recst.cur)
    /\ recst' = [pc |-> "idle", cur |-> NoItem]
    /\ hist' = [hist EXCEPT !.seeds =
                   Append(@, parse_recursion_url(recst.cur.url))]
    /\ UNCHANGED <<options, qmanager, local, pool, results, discardq, stats, level,
                   seedst>>

\* ============================================================ plugin stage
\* PluginQueue.process: send_to_any hands the result to one of the executors
PluginQueue_process ==
    /\ q["plugins_queue"] # <<>>
    /\ LET it == Head1("plugins_queue")
           Q1 == Dequeue(q, "plugins_queue")
       IN IF it.type # RESULT
          THEN /\ q' = ForwardQ(Q1, "plugins_queue", it)
               /\ local' = local
          ELSE /\ q' = Q1
               /\ \E e \in 1..ConcurrentPlugins :
                     local' = [local EXCEPT !.executors[e].queue = put(@, it)]
    /\ UNCHANGED <<options, qmanager, pool, results, discardq, stats, cache,
                   level, seedst, recst, hist>>

\* plugin_factory "backfeed_plugin" and "seed_plugin": the request or the seed
\* a plugin queues for a link it found in the response of fr
backfeed_plugin(fr, target) ==
    [fuzzres_from_fuzzres(fr, target) EXCEPT !.from_plugin = TRUE,
                                             !.host = options.link_host]
seed_plugin(fr, target) ==
    [fr EXCEPT !.type = SEED, !.url = target, !.from_plugin = TRUE,
               !.plugin_rlevel = @ + 1, !.is_baseline = FALSE, !.code = 0,
               !.host = options.link_host]

\* the outputs of the selected plugins for a result: with script "links" each
\* page of the server chain holds a link to a page of its own, which the
\* plugin queues as a request; with script "dirs" every page names the
\* directory /a/, which the plugin queues as a seed; with script "base" every
\* page names the base directory of the target, and with script "index" the
\* index page names /a/ as well
PluginOutputs(fr) ==
    IF fr.exception THEN <<>>
    ELSE IF options.script = "links"
    THEN IF InChain(fr.url)
         THEN <<backfeed_plugin(fr, fr.url \o <<"p">>)>>
         ELSE <<>>
    ELSE IF options.script = "base"
    THEN <<seed_plugin(fr, <<>>)>>
    ELSE IF options.script = "index"
    THEN IF fr.url = <<"">>
         THEN <<seed_plugin(fr, <<>>), seed_plugin(fr, <<"a">>)>>
         ELSE <<seed_plugin(fr, <<>>)>>
    ELSE <<seed_plugin(fr, <<"a">>)>>

\* PluginExecutor.process: queued_dict is set up and the plugins run on the
\* result
PluginExecutor_process(e) ==
    /\ local.executors[e].pc = "idle"
    /\ local.executors[e].queue # <<>>
    /\ LET it == Head(local.executors[e].queue).it
       IN local' = [local EXCEPT !.executors[e] =
                       [pc |-> "results", queue |-> Tail(@.queue), cur |-> it,
                        outs |-> PluginOutputs(it),
                        queued_dict |-> [queued_requests |-> 0, queued_seeds |-> 0],
                        sent |-> [requests |-> 0, seeds |-> 0]]]
    /\ UNCHANGED <<options, qmanager, q, pool, results, discardq, stats, cache,
                   level, seedst, recst, hist>>

\* PluginExecutor.process_results: one turn of the loop up to the final cache
\* check, the output counted in queued_dict before that check, or, with no
\* output left, the summary findings are made of queued_dict and the result
\* is sent on.  sent counts what the executor has sent for the result
PluginExecutor_process_results(e) ==
    /\ local.executors[e].pc = "results"
    /\ LET ex == local.executors[e]
           seed == Head(ex.outs)
           next == [local EXCEPT !.executors[e].outs = Tail(@)]
       IN IF ex.outs = <<>>
          THEN /\ q' = SendQ(q, "plugins_queue", ex.cur)
               /\ local' = [local EXCEPT !.executors[e].pc = "idle",
                                          !.executors[e].cur = NoItem]
               /\ hist' = hist
          ELSE IF ~in_scope(ex.cur, seed.host)
          THEN /\ local' = next
               /\ UNCHANGED <<q, hist>>
          ELSE IF seed.type = BACKFEED
          THEN IF cached("processed", seed.url)
               THEN /\ local' = next
                    /\ UNCHANGED <<q, hist>>
               ELSE IF seed.backfeed_level >= requeue_limit
               THEN /\ local' = next
                    /\ hist' = [hist EXCEPT !.backfeeds = @ \cup
                                   {[level |-> seed.backfeed_level,
                                     out |-> "finding"]}]
                    /\ q' = q
               ELSE /\ local' = [local EXCEPT
                                  !.executors[e].pc = "gate",
                                  !.executors[e].queued_dict.queued_requests =
                                      @ + 1]
                    /\ UNCHANGED <<q, hist>>
          ELSE IF \/ cached("recursion", seed.url)
                  \/ ex.cur.plugin_rlevel >= options.plugin_rlevel
                  \/ seed_false_positive(seed)
          THEN /\ local' = next
               /\ UNCHANGED <<q, hist>>
          ELSE /\ local' = [local EXCEPT
                             !.executors[e].pc = "gate",
                             !.executors[e].queued_dict.queued_seeds = @ + 1]
               /\ UNCHANGED <<q, hist>>
    /\ UNCHANGED <<options, qmanager, pool, results, discardq, stats, cache,
                   level, seedst, recst>>

\* the category of the cache a plugin's seed is checked in
cache_type(seed) == IF seed.type = BACKFEED THEN "processed" ELSE "recursion"

\* the final check_cache(url, update=True): the membership test.  The cache
\* has no thread locks, so another worker can run between test and insert
PluginExecutor_check_cache(e) ==
    /\ local.executors[e].pc = "gate"
    /\ LET seed == Head(local.executors[e].outs)
       IN local' = IF cached(cache_type(seed), seed.url)
                   THEN [local EXCEPT !.executors[e].pc = "results",
                                      !.executors[e].outs = Tail(@)]
                   ELSE [local EXCEPT !.executors[e].pc = "send"]
    /\ UNCHANGED <<options, qmanager, q, pool, results, discardq, stats, cache,
                   level, seedst, recst, hist>>

\* check_cache inserts the key and the seed is sent
PluginExecutor_send(e) ==
    /\ local.executors[e].pc = "send"
    /\ LET seed == Head(local.executors[e].outs)
       IN /\ cache' = cache_add(cache, cache_type(seed), seed.url)
          /\ q' = SendQ(q, "plugins_queue", seed)
          /\ hist' = IF seed.type = SEED
                     THEN [hist EXCEPT !.seeds = Append(@, seed.url)]
                     ELSE [hist EXCEPT !.backfeeds = @ \cup
                              {[level |-> seed.backfeed_level, out |-> "send"]}]
    /\ local' = [local EXCEPT
                    !.executors[e].pc = "results",
                    !.executors[e].outs = Tail(@),
                    !.executors[e].sent =
                        IF Head(local.executors[e].outs).type = SEED
                        THEN [@ EXCEPT !.seeds = @ + 1]
                        ELSE [@ EXCEPT !.requests = @ + 1]]
    /\ UNCHANGED <<options, qmanager, pool, results, discardq, stats, level,
                   seedst, recst>>

\* ================================================================ RoutingQ
\* variants of assign_next_priority_level: the level is returned without being
\* raised; the level is raised by one
assign_level_unraised(l) == l
assign_level_by_one(l) == l + 1
\* variant: every routed seed gets the priority of the first items
assign_level_lowest(l) == 0

\* FuzzSession.assign_next_priority_level
assign_next_priority_level(l) == l + PRIORITY_STEP

\* variant of RoutingQ.process: a BACKFEED is given a priority level too
RoutingQ_process_levels_backfeed ==
    /\ q["routing_queue"] # <<>>
    /\ LET it == Head1("routing_queue")
           Q1 == Dequeue(q, "routing_queue")
           priority_level == assign_next_priority_level(level)
       IN IF it.type = SEED
          THEN /\ level' = priority_level
               /\ stats' = [new_seed(stats) EXCEPT
                               !.seed_list = Append(@, it.url)]
               /\ q' = [Q1 EXCEPT !["seed_queue"] =
                           put(@, [it EXCEPT !.priority = priority_level])]
               /\ hist' = [hist EXCEPT !.routed =
                              Append(@, [cause |-> it.priority,
                                         assigned |-> priority_level])]
          ELSE IF it.type = BACKFEED
          THEN /\ level' = priority_level
               /\ stats' = new_backfeed(stats)
               /\ q' = [Q1 EXCEPT !["transport_queue"] =
                           put(@, [it EXCEPT !.priority = priority_level])]
               /\ UNCHANGED hist
          ELSE /\ q' = ForwardQ(Q1, "routing_queue", it)
               /\ UNCHANGED <<level, stats, hist>>
    /\ UNCHANGED <<options, qmanager, local, pool, results, discardq, cache, seedst,
                   recst>>

\* RoutingQ.process with the routes of Fuzzer.__init__: SEED to the seed
\* stage, BACKFEED to the transport stage
RoutingQ_process ==
    /\ q["routing_queue"] # <<>>
    /\ LET it == Head1("routing_queue")
           Q1 == Dequeue(q, "routing_queue")
           priority_level == assign_next_priority_level(level)
       IN IF it.type = SEED
          THEN /\ level' = priority_level
               /\ stats' = [new_seed(stats) EXCEPT
                               !.seed_list = Append(@, it.url)]
               /\ q' = [Q1 EXCEPT !["seed_queue"] =
                           put(@, [it EXCEPT !.priority = priority_level])]
               /\ hist' = [hist EXCEPT !.routed =
                              Append(@, [cause |-> it.priority,
                                         assigned |-> priority_level])]
          ELSE IF it.type = BACKFEED
          THEN /\ stats' = new_backfeed(stats)
               /\ q' = [Q1 EXCEPT !["transport_queue"] = put(@, it)]
               /\ UNCHANGED <<level, hist>>
          ELSE /\ q' = ForwardQ(Q1, "routing_queue", it)
               /\ UNCHANGED <<level, stats, hist>>
    /\ UNCHANGED <<options, qmanager, local, pool, results, discardq, cache, seedst,
                   recst>>

\* ============================================================= CLIPrinterQ
\* CLIPrinterQ.process: print, then send the item on: the printer is the last
\* stage, its output is the results queue; the poison value (NoItem) is not
\* an item to process
CLIPrinterQ_process ==
    /\ q["printer_cli"] # <<>>
    /\ Head1("printer_cli") # NoItem
    /\ LET it == Head1("printer_cli")
       IN /\ q' = Dequeue(q, "printer_cli")
          /\ results' = results \cup {it}
          /\ stats' = mark_processed(stats, it)
    /\ UNCHANGED <<options, qmanager, local, pool, discardq, cache, level, seedst,
                   recst, hist>>

\* ================================================================= Fuzzer
\* Fuzzer.__next__ gets an ERROR item and raises its exception; the finally
\* clause of FuzzSession.fuzz cancels the job
Fuzzer_next ==
    /\ ~stats.cancelled
    /\ \E r \in results : r.type = "ERROR"
    /\ stats' = [stats EXCEPT !.cancelled = TRUE]
    /\ UNCHANGED <<options, qmanager, q, pool, results, discardq, cache, level,
                   seedst, recst, local, hist>>

\* Fuzzer.pause_job and Fuzzer.resume_job: clear and set HttpQueue.pause
Fuzzer_pause_job ==
    /\ local.pause
    /\ local' = [local EXCEPT !.pause = FALSE]
    /\ UNCHANGED <<options, qmanager, q, pool, results, discardq, stats, cache,
                   level, seedst, recst, hist>>

Fuzzer_resume_job ==
    /\ ~local.pause
    /\ local' = [local EXCEPT !.pause = TRUE]
    /\ UNCHANGED <<options, qmanager, q, pool, results, discardq, stats, cache,
                   level, seedst, recst, hist>>

\* ============================================================ the pipeline
\* the paths of at most n wordlist segments
RECURSIVE Paths(_)
Paths(n) ==
    IF n = 0 THEN {}
    ELSE {<<Words[i]>> : i \in 1..Len(Words)}
         \cup {p \o <<Words[i]>> : p \in Paths(n - 1), i \in 1..Len(Words)}

\* follow_redirects and rlevel set, transport http/s; the server's directories
\* and the presence of a baseline request vary
PipeOptions ==
    [transport : {"http/s"}, follow_redirects : {TRUE}, rlevel : {MaxRlevel},
     concurrent : {Concurrent}, baseline : BOOLEAN, words : {Words},
     dirs : SUBSET Paths(MaxRlevel), fps : {{}},
     prefilter : {<<>>}, auto_filter : {FALSE}, filter : {<<>>},
     script : {""}, plugin_rlevel : {0}, chain : {0},
     limitrequests : {FALSE}, LIMITREQUESTS_THRESHOLD : {0},
     scanmode : {TRUE}, failing : {{}}, domain_scope : {FALSE},
     link_host : {"h"}]

Init == \E o \in PipeOptions : InitWith(o)

Next ==
    \/ SeedQueue_process
    \/ SeedQueue_send_baseline
    \/ SeedQueue_send_root
    \/ SeedQueue_send_dictionary
    \/ SeedQueue_end_seed
    \/ HttpQueue_process
    \/ HttpQueue_read_http_results
    \/ RedirectQ_process
    \/ RecursiveQ_process
    \/ RecursiveQ_check_cache
    \/ RecursiveQ_send_seed
    \/ RoutingQ_process
    \/ CLIPrinterQ_process

Spec == Init /\ [][Next]_vars

\* ======================================================= the plugin stage
\* script set, no user recursion; the plugins queue requests or seeds
PluginOptions ==
    [transport : {"http/s"}, follow_redirects : {FALSE}, rlevel : {0},
     concurrent : {Concurrent}, baseline : {FALSE}, words : {Words},
     dirs : {{}}, fps : {{}},
     prefilter : {<<>>}, auto_filter : {FALSE}, filter : {<<>>},
     script : {"dirs"}, plugin_rlevel : {1}, chain : {0},
     limitrequests : {FALSE}, LIMITREQUESTS_THRESHOLD : {0},
     scanmode : {TRUE}, failing : {{}}, domain_scope : {FALSE},
     link_host : {"h"}]

InitPlugins == \E o \in PluginOptions : InitWith(o)

NextPlugins ==
    \/ SeedQueue_process
    \/ SeedQueue_send_root
    \/ SeedQueue_send_dictionary
    \/ SeedQueue_end_seed
    \/ HttpQueue_process
    \/ HttpQueue_read_http_results
    \/ PluginQueue_process
    \/ \E e \in 1..ConcurrentPlugins : PluginExecutor_process(e)
    \/ \E e \in 1..ConcurrentPlugins : PluginExecutor_process_results(e)
    \/ \E e \in 1..ConcurrentPlugins : PluginExecutor_check_cache(e)
    \/ \E e \in 1..ConcurrentPlugins : PluginExecutor_send(e)
    \/ RoutingQ_process
    \/ CLIPrinterQ_process

SpecPlugins == InitPlugins /\ [][NextPlugins]_vars

\* ===================================================== the requeue limit
\* RoutingQ.process has put into the transport stage a request that plugins
\* have requeued: each requeue of a chain of links was let through by
\* PluginExecutor.process_results, so its level is below requeue_limit
Upstream_requeued ==
    /\ hist.fed < MaxRequeued
    /\ \E n \in 0..(requeue_limit - 1) :
          q' = [q EXCEPT !["transport_queue"] =
                   put(@, [Item(BACKFEED, <<"a">>, PRIORITY_STEP, 0, n, FALSE)
                              EXCEPT !.from_plugin = TRUE])]
    /\ cache' = cache_add(cache, "processed", <<"a">>)
    /\ stats' = new_backfeed(stats)
    /\ hist' = [hist EXCEPT !.fed = @ + 1]
    /\ UNCHANGED <<options, qmanager, local, pool, results, discardq, level,
                   seedst, recst>>

BackfeedOptions ==
    [transport : {"http/s"}, follow_redirects : {TRUE}, rlevel : {0},
     concurrent : {Concurrent}, baseline : {FALSE}, words : {Words},
     dirs : {{}}, fps : {{}},
     prefilter : {<<>>}, auto_filter : {FALSE}, filter : {<<>>},
     script : {"links"}, plugin_rlevel : {1}, chain : {MaxChain},
     limitrequests : {FALSE}, LIMITREQUESTS_THRESHOLD : {0},
     scanmode : {TRUE}, failing : {{}}, domain_scope : {FALSE},
     link_host : {"h"}]

InitBackfeed == \E o \in BackfeedOptions : InitWith(o)

NextBackfeed ==
    \/ Upstream_requeued
    \/ HttpQueue_process
    \/ HttpQueue_read_http_results
    \/ RedirectQ_process
    \/ PluginQueue_process
    \/ \E e \in 1..ConcurrentPlugins : PluginExecutor_process(e)
    \/ \E e \in 1..ConcurrentPlugins : PluginExecutor_process_results(e)
    \/ \E e \in 1..ConcurrentPlugins : PluginExecutor_check_cache(e)
    \/ \E e \in 1..ConcurrentPlugins : PluginExecutor_send(e)
    \/ RoutingQ_process
    \/ CLIPrinterQ_process

SpecBackfeed == InitBackfeed /\ [][NextBackfeed]_vars

\* ====================================================== the base directory
\* plugins that name the base directory of the target as a seed, together
\* with user recursion: either /a is a directory the recursive stage finds,
\* or the index page names /a/ to the plugins
SpecBaseDirectory ==
    /\ \E o \in
          [transport : {"http/s"}, follow_redirects : {FALSE}, rlevel : {1},
           concurrent : {1}, baseline : {FALSE}, words : {Words},
           dirs : {{}, {<<"a">>}}, fps : {{}},
           prefilter : {<<>>}, auto_filter : {FALSE}, filter : {<<>>},
           script : {"base", "index"}, plugin_rlevel : {1}, chain : {0},
           limitrequests : {FALSE}, LIMITREQUESTS_THRESHOLD : {0},
           scanmode : {TRUE}, failing : {{}}, domain_scope : {FALSE},
           link_host : {"h"}] :
          (o.script = "base") = (o.dirs # {}) /\ InitWith(o)
    /\ [][\/ NextPlugins
          \/ RecursiveQ_process
          \/ RecursiveQ_check_cache
          \/ RecursiveQ_send_seed]_vars

\* ============================================================== the seeds
\* the index page names /a/ to the plugins; the request for /a fails with
\* scanmode off, which cancels the run once the user gets the error;
\* limitrequests may be set.  Every
\* stage is a thread that keeps running
SpecSeeds ==
    /\ \E o \in
          [transport : {"http/s"}, follow_redirects : {FALSE}, rlevel : {0},
           concurrent : {1}, baseline : {FALSE}, words : {Words},
           dirs : {{}}, fps : {{}},
           prefilter : {<<>>}, auto_filter : {FALSE}, filter : {<<>>},
           script : {"index"}, plugin_rlevel : {1}, chain : {0},
           limitrequests : BOOLEAN, LIMITREQUESTS_THRESHOLD : {0},
           scanmode : {FALSE}, failing : {{<<"a">>}},
           domain_scope : {FALSE}, link_host : {"h"}] : InitWith(o)
    /\ [][NextPlugins \/ Fuzzer_next]_vars
    /\ WF_vars(SeedQueue_send_root)
    /\ WF_vars(SeedQueue_send_dictionary)
    /\ WF_vars(SeedQueue_end_seed)

\* ================================================================ the scope
\* redirects and plugin links that name the host of the target, a host of
\* its domain or a foreign host, with the host-based or domain-based scope
SpecScope ==
    /\ \E o \in
          [transport : {"http/s"}, follow_redirects : {TRUE}, rlevel : {0},
           concurrent : {Concurrent}, baseline : {FALSE}, words : {Words},
           dirs : {{}}, fps : {{}},
           prefilter : {<<>>}, auto_filter : {FALSE}, filter : {<<>>},
           script : {"links"}, plugin_rlevel : {1}, chain : {1},
           limitrequests : {FALSE}, LIMITREQUESTS_THRESHOLD : {0},
           scanmode : {TRUE}, failing : {{}}, domain_scope : BOOLEAN,
           link_host : {"h", "s.h", "x"}] : InitWith(o)
    /\ [][NextPlugins \/ RedirectQ_process]_vars

\* ====================================================== the routing stage
\* the priorities seeds carry: the compiled seed's and every one assigned
KnownPriorities ==
    {PRIORITY_STEP} \cup {hist.routed[i].assigned : i \in 1..Len(hist.routed)}

\* FuzzQueue.send of a stage upstream of RoutingQ: a new SEED (RecursiveQ,
\* PluginExecutor), a BACKFEED (RedirectQ, PluginExecutor) or a passing
\* RESULT, each with the priority of the seed whose result caused it
Upstream_send ==
    /\ hist.fed < MaxFed
    /\ \E t \in {SEED, BACKFEED, RESULT}, p \in KnownPriorities,
          u \in Paths(MaxRlevel) :
          q' = [q EXCEPT !["routing_queue"] = put(@, Item(t, u, p, 0, 0, FALSE))]
    /\ hist' = [hist EXCEPT !.fed = @ + 1]
    /\ UNCHANGED <<options, qmanager, local, pool, results, discardq, stats, cache,
                   level, seedst, recst>>

NextRouting ==
    \/ Upstream_send
    \/ RoutingQ_process

SpecRouting == Init /\ [][NextRouting]_vars

\* ====================================================== the filter stages
\* FuzzQueue.discard: the item is marked and goes to the discard channel
discard(D, it) == Append(D, [it EXCEPT !.discarded = TRUE])

\* A filter expression is the sequence of its clauses joined by "and"; a
\* clause is "(c=.. and l=.. and w=..)", negated when neg is set.
\* FuzzResFilter: symbol_expr with "=" compares str(left) == str(right),
\* __compute_not_operator negates, __myreduce folds "and" left to right
formula(fs, fr) ==
    \A i \in 1..Len(fs) :
       LET m == /\ ToString(fr.code) = ToString(fs[i].id.c)
                /\ ToString(fr.lines) = ToString(fs[i].id.l)
                /\ ToString(fr.words) = ToString(fs[i].id.w)
       IN IF fs[i].neg THEN ~m ELSE m

\* variant of is_filtered: nothing is filtered
is_filtered_never(fs, fr) == FALSE

\* FuzzResFilter.is_filtered
is_filtered(fs, fr) == ~formula(fs, fr)

\* BaseFilter.is_visible
is_visible(fs, fr) == ~is_filtered(fs, fr)

\* the identifier of a response: "c={code} and l={lines} and w={words}"
id_with_words_as_lines(fr) == [c |-> fr.code, l |-> fr.lines, w |-> fr.lines]
response_identifier(fr) == [c |-> fr.code, l |-> fr.lines, w |-> fr.words]

\* AutofilterQ.update_filter: "not (identifier)" joined to the filter by "and"
update_filter_unchanged(fs, identifier) == fs
\* variant: the new clause replaces the filter
update_filter_replaced(fs, identifier) == <<[neg |-> TRUE, id |-> identifier]>>
update_filter(fs, identifier) == Append(fs, [neg |-> TRUE, id |-> identifier])

\* variant of update_response_tracker: a hit leaves the identifier in its place
update_response_tracker_unmoved(L, fr) ==
    LET t == L.response_tracker_dict
        id == response_identifier(fr)
        at == {i \in 1..Len(t) : t[i].id = id}
    IN IF at # {}
       THEN LET n == t[CHOOSE i \in at : TRUE].n + 1
            IN IF n >= RecurringHits
               THEN [filter_string |-> update_filter(L.filter_string, id),
                     response_tracker_dict |->
                         SelectSeq(t, LAMBDA e : e.id # id)]
               ELSE [L EXCEPT !.response_tracker_dict =
                                 [i \in 1..Len(t) |->
                                     IF i \in at THEN [id |-> id, n |-> n]
                                     ELSE t[i]]]
       ELSE LET t1 == Append(t, [id |-> id, n |-> 1])
            IN [L EXCEPT !.response_tracker_dict =
                            IF Len(t1) > maximum_length THEN Tail(t1) ELSE t1]

\* AutofilterQ.update_response_tracker on the insertion-ordered tracker
\* (oldest first); the result is the new tracker and the new filter string
update_response_tracker(L, fr) ==
    LET t == L.response_tracker_dict
        id == response_identifier(fr)
        at == {i \in 1..Len(t) : t[i].id = id}
        without == SelectSeq(t, LAMBDA e : e.id # id)
    IN IF at # {}
       THEN LET n == t[CHOOSE i \in at : TRUE].n + 1
            IN IF n >= RecurringHits
               THEN [filter_string |-> update_filter(L.filter_string, id),
                     response_tracker_dict |-> without]
               ELSE [L EXCEPT !.response_tracker_dict =
                                 Append(without, [id |-> id, n |-> n])]
       ELSE LET t1 == Append(t, [id |-> id, n |-> 1])
            IN [L EXCEPT !.response_tracker_dict =
                            IF Len(t1) > maximum_length THEN Tail(t1) ELSE t1]

\* variant of is_exempt: errored requests are not exempt
is_exempt_head_only(fr) == fr.method = "HEAD" /\ fr.code = 200

\* AutofilterQ.process: successful HEAD requests and errored requests are
\* not subject to the auto-filter
is_exempt(fr) ==
    (fr.method = "HEAD" /\ fr.code = 200) \/ fr.code = ERROR_CODE

AutofilterQ_process ==
    /\ q["autofilter_queue"] # <<>>
    /\ LET it == Head1("autofilter_queue")
           Q1 == Dequeue(q, "autofilter_queue")
           exempt == is_exempt(it)
           tracked == \/ local.filter_string = <<>>
                      \/ is_visible(local.filter_string, it)
           out == IF exempt \/ tracked THEN "send" ELSE "discard"
       IN IF it.type # RESULT
          THEN /\ q' = ForwardQ(Q1, "autofilter_queue", it)
               /\ UNCHANGED <<local, discardq, hist>>
          ELSE /\ local' = IF ~exempt /\ tracked
                           THEN update_response_tracker(local, it)
                           ELSE local
               /\ q' = IF out = "send" THEN SendQ(Q1, "autofilter_queue", it)
                       ELSE Q1
               /\ discardq' = IF out = "send" THEN discardq
                              ELSE discard(discardq, it)
               /\ hist' = [hist EXCEPT !.auto =
                              Append(@, [id |-> [c |-> it.code, l |-> it.lines,
                                                 w |-> it.words],
                                         exempt |-> exempt, out |-> out])]
    /\ UNCHANGED <<options, qmanager, pool, results, stats, cache, level,
                   seedst, recst>>

\* FilterQ.process: what is sent on
FilterQ_visible_only(fr) == is_visible(options.filter, fr)
FilterQ_forwards(fr) == is_visible(options.filter, fr) \/ fr.is_baseline

FilterQ_process ==
    /\ q["filter_queue"] # <<>>
    /\ LET it == Head1("filter_queue")
           Q1 == Dequeue(q, "filter_queue")
       IN IF it.type # RESULT
          THEN /\ q' = ForwardQ(Q1, "filter_queue", it)
               /\ discardq' = discardq
          ELSE IF FilterQ_forwards(it)
          THEN /\ q' = SendQ(Q1, "filter_queue", it)
               /\ discardq' = discardq
          ELSE /\ q' = Q1
               /\ discardq' = discard(discardq, it)
    /\ UNCHANGED <<options, qmanager, local, pool, results, stats, cache,
                   level, seedst, recst, hist>>

SliceQ_process ==
    /\ q["slice_queue_0"] # <<>>
    /\ LET it == Head1("slice_queue_0")
           Q1 == Dequeue(q, "slice_queue_0")
       IN IF it.type # RESULT
          THEN /\ q' = ForwardQ(Q1, "slice_queue_0", it)
               /\ discardq' = discardq
          ELSE IF it.is_baseline \/ is_visible(options.prefilter, it)
          THEN /\ q' = SendQ(Q1, "slice_queue_0", it)
               /\ discardq' = discardq
          ELSE /\ q' = Q1
               /\ discardq' = discard(discardq, it)
    /\ UNCHANGED <<options, qmanager, local, pool, results, stats, cache,
                   level, seedst, recst, hist>>

\* PassPayloadQ.process: the stored result of the payload is sent on
PassPayloadQ_process ==
    /\ options.transport = "payload"
    /\ q["transport_queue"] # <<>>
    /\ q' = ForwardQ(Dequeue(q, "transport_queue"), "transport_queue",
                     Head1("transport_queue"))
    /\ UNCHANGED <<options, qmanager, local, pool, results, discardq, stats,
                   cache, level, seedst, recst, hist>>

\* the stored results a payload of results replays: one recurring response
\* and a few others
Recurring == [Item(RESULT, <<"a">>, PRIORITY_STEP, 0, 0, FALSE)
                 EXCEPT !.code = 404, !.lines = 1, !.words = 2]
Others ==
    {[Recurring EXCEPT !.code = 200],
     [Recurring EXCEPT !.words = 1],
     [Recurring EXCEPT !.method = "HEAD", !.code = 200],
     [Recurring EXCEPT !.code = ERROR_CODE]}

\* the filter expression "not (c=404 and l=1 and w=1)"
HideOther == <<[neg |-> TRUE, id |-> [c |-> 404, l |-> 1, w |-> 1]]>>

\* the results in the inputs of the stages behind the seed stage
InFlight == Len(q["slice_queue_0"]) + Len(q["transport_queue"])
            + Len(q["autofilter_queue"]) + Len(q["filter_queue"])
            + Len(q["printer_cli"])

\* SeedQueue.send_baseline with the baseline's stored response
Upstream_baseline ==
    /\ options.baseline
    /\ stats.pending_fuzz = 0
    /\ stats' = [stats EXCEPT !.pending_fuzz = @ + 1]
    /\ q' = SendFirstQ(q, "seed_queue",
                       [compiled_baseline EXCEPT !.code = 404, !.lines = 1,
                                                 !.words = 1])
    /\ UNCHANGED <<options, qmanager, local, pool, results, discardq, cache,
                   level, seedst, recst, hist>>

\* SeedQueue.send of one stored result into the stage after the seed stage
Upstream_result ==
    /\ InFlight < MaxInFlight
    /\ options.baseline => stats.pending_fuzz > 0
    /\ options.baseline => (stats.processed # 0 \/ stats.cancelled)
    /\ \E it \in {Recurring} \cup Others :
          /\ IF it = Recurring THEN hist.rep < MaxRepeat ELSE hist.fed < MaxOther
          /\ hist' = IF it = Recurring THEN [hist EXCEPT !.rep = @ + 1]
                     ELSE [hist EXCEPT !.fed = @ + 1]
          /\ q' = SendQ(q, "seed_queue", it)
    /\ UNCHANGED <<options, qmanager, local, pool, results, discardq, stats,
                   cache, level, seedst, recst>>

FilterOptions ==
    [transport : {"payload"}, follow_redirects : {FALSE}, rlevel : {0},
     concurrent : {Concurrent}, baseline : BOOLEAN, words : {Words},
     dirs : {{}}, fps : {{}},
     prefilter : {<<>>, HideOther}, auto_filter : {TRUE},
     filter : {<<>>, HideOther}, script : {""}, plugin_rlevel : {0},
     chain : {0}, limitrequests : {FALSE}, LIMITREQUESTS_THRESHOLD : {0},
     scanmode : {TRUE}, failing : {{}}, domain_scope : {FALSE},
     link_host : {"h"}]

InitFilters == \E o \in FilterOptions : InitWith(o)

NextFilters ==
    \/ Upstream_baseline
    \/ Upstream_result
    \/ SliceQ_process
    \/ PassPayloadQ_process
    \/ AutofilterQ_process
    \/ FilterQ_process
    \/ CLIPrinterQ_process

SpecFilters == InitFilters /\ [][NextFilters]_vars

\* ============================================================= scanmode
\* no recursion, redirects or plugins; some requests fail in transport, with
\* scanmode on or off; the pool runs one request at a time or more; the user
\* pauses and resumes the job
InitScan ==
    \E o \in
        [transport : {"http/s"}, follow_redirects : {FALSE}, rlevel : {0},
         concurrent : {1, Concurrent}, baseline : {FALSE}, words : {Words},
         dirs : {{}}, fps : {{}},
         prefilter : {<<>>}, auto_filter : {FALSE}, filter : {<<>>},
         script : {""}, plugin_rlevel : {0}, chain : {0},
         limitrequests : {FALSE}, LIMITREQUESTS_THRESHOLD : {0},
         scanmode : BOOLEAN, failing : SUBSET {<<"">>, <<"a">>},
         domain_scope : {FALSE}, link_host : {"h"}] :
       InitWith(o)

NextScan ==
    \/ SeedQueue_process
    \/ SeedQueue_send_root
    \/ SeedQueue_send_dictionary
    \/ SeedQueue_end_seed
    \/ HttpQueue_process
    \/ HttpQueue_read_http_results
    \/ CLIPrinterQ_process
    \/ Fuzzer_next
    \/ Fuzzer_pause_job
    \/ Fuzzer_resume_job

SpecScan == InitScan /\ [][NextScan]_vars

\* the stage workers and the results reader keep running, and the pool
\* returns a request with requeue false after finitely many requeues
SpecScanLive ==
    /\ SpecScan
    /\ WF_vars(HttpQueue_process)
    /\ WF_vars(HttpQueue_read_http_results /\ Len(pool') < Len(pool))
    /\ WF_vars(CLIPrinterQ_process)

\* ================================================== the dictionary
\* a wordlist with a repeated word, the empty word and the word of the
\* baseline request, one longer than concurrent * 5, and an empty one
DictionaryWords == <<"a", "BBB", "a", "">>
LongDictionary == <<"a", "b", "c", "d", "e", "f">>

\* one seed and no routing stage: the seed stage is the only producer of the
\* transport stage's input; the baseline request fails or not
SpecDictionary ==
    /\ \E o \in
          [transport : {"http/s"}, follow_redirects : {FALSE}, rlevel : {0},
           concurrent : {1}, baseline : BOOLEAN,
           words : {<<>>, DictionaryWords, LongDictionary},
           dirs : {{}}, fps : {{}},
           prefilter : {<<>>}, auto_filter : {FALSE}, filter : {<<>>},
           script : {""}, plugin_rlevel : {0}, chain : {0},
           limitrequests : {FALSE}, LIMITREQUESTS_THRESHOLD : {0},
           scanmode : {FALSE}, failing : {{}, {<<"BBB">>}},
           domain_scope : {FALSE}, link_host : {"h"}] :
          /\ o.words = LongDictionary => ~o.baseline /\ o.failing = {}
          /\ InitWith(o)
    /\ [][\/ SeedQueue_process
          \/ SeedQueue_send_baseline
          \/ SeedQueue_send_root
          \/ SeedQueue_send_dictionary
          \/ SeedQueue_empty_dictionary
          \/ SeedQueue_end_seed
          \/ HttpQueue_process
          \/ HttpQueue_read_http_results
          \/ CLIPrinterQ_process
          \/ Fuzzer_next]_vars

\* ======================================================== hard_filter
\* the filter expression "not (c=200 and l=0 and w=0) and not (c=301 ...)":
\* it hides the index page and the redirect of a directory
HideFound == <<[neg |-> TRUE, id |-> [c |-> 200, l |-> 0, w |-> 0]],
               [neg |-> TRUE, id |-> [c |-> 301, l |-> 0, w |-> 0]]>>

\* FilterQ.process of the stage of the simple filter, which hides the same
\* responses when it is active, and FilePrinterQ.process, which sends every
\* item on
LateStage_process ==
    \E n \in {"simple_filter_queue", "printer_queue"} :
       /\ q[n] # <<>>
       /\ LET it == Head(q[n]).it
              Q1 == Dequeue(q, n)
          IN IF /\ n = "simple_filter_queue" /\ it.type = RESULT
                /\ ~(is_visible(HideFound, it) \/ it.is_baseline)
             THEN /\ q' = Q1
                  /\ discardq' = discard(discardq, it)
             ELSE /\ q' = ForwardQ(Q1, n, it)
                  /\ discardq' = discardq
       /\ UNCHANGED <<options, qmanager, local, pool, results, stats, cache,
                      level, seedst, recst, hist>>

\* recursion or a plugin that names /a/ on the index page, a filter or a
\* simple filter that hides what they act on, with and without hard_filter
SpecHardFilter ==
    /\ \E o \in
          [transport : {"http/s"}, follow_redirects : {FALSE}, rlevel : {0, 1},
           concurrent : {1}, baseline : {FALSE}, words : {Words},
           dirs : {{<<"a">>}}, fps : {{}},
           prefilter : {<<>>}, auto_filter : {FALSE},
           filter : {<<>>, HideFound},
           script : {"", "index"}, plugin_rlevel : {1}, chain : {0},
           limitrequests : {FALSE}, LIMITREQUESTS_THRESHOLD : {0},
           scanmode : {TRUE}, failing : {{}}, domain_scope : {FALSE},
           link_host : {"h"}, hard_filter : BOOLEAN,
           simple_filter : BOOLEAN, compiled_printer : BOOLEAN] :
          /\ (o.script = "") # (o.rlevel = 0)
          /\ o.simple_filter = o.compiled_printer
          /\ o.script # "" => (o.filter = HideFound /\ ~o.simple_filter)
          /\ InitWith(o)
    /\ [][\/ NextPlugins
          \/ RecursiveQ_process
          \/ RecursiveQ_check_cache
          \/ RecursiveQ_send_seed
          \/ FilterQ_process
          \/ LateStage_process]_vars

\* ==================================================== redirects on their own
\* follow_redirects set with neither recursion nor plugins: Fuzzer.__init__
\* adds the redirect stage and no routing stage; /a redirects to /a/r
SpecRedirects ==
    /\ \E o \in
          [transport : {"http/s"}, follow_redirects : {TRUE}, rlevel : {0},
           concurrent : {1, Concurrent}, baseline : {FALSE}, words : {Words},
           dirs : {{}}, fps : {{}},
           prefilter : {<<>>}, auto_filter : {FALSE}, filter : {<<>>},
           script : {""}, plugin_rlevel : {0}, chain : {1},
           limitrequests : {FALSE}, LIMITREQUESTS_THRESHOLD : {0},
           scanmode : BOOLEAN, failing : SUBSET {<<"">>, <<"a">>},
           domain_scope : {FALSE}, link_host : {"h"}] : InitWith(o)
    /\ [][NextScan \/ RedirectQ_process]_vars

\* ==================================================== the recursive stage
\* the number of items of a type in the input of a stage
Holds(name, type) ==
    Cardinality({i \in 1..Len(q[name]) : q[name][i].it.type = type})

\* the transport stage sends on the answer to a request of the core or of a
\* plugin, at some recursion depth; another request may still be queued in
\* the HTTP pool
Upstream_response ==
    /\ hist.fed < MaxResponses
    /\ \E u \in {<<"a">>, <<"a", "">>, <<"b">>}, from_plugin \in BOOLEAN,
          depth \in 0..MaxRlevel, queued \in 0..1 :
          LET fr == [Item(RESULT, u, PRIORITY_STEP,
                          IF from_plugin THEN 0 ELSE depth, 0, FALSE)
                       EXCEPT !.from_plugin = from_plugin,
                              !.plugin_rlevel = IF from_plugin THEN depth ELSE 0,
                              !.code = Code(u)]
          IN /\ q' = SendQ(q, "transport_queue", fr)
             /\ pool' = SubSeq(<<[fr EXCEPT !.code = 0]>>, 1, queued)
    /\ hist' = [hist EXCEPT !.fed = @ + 1]
    /\ UNCHANGED <<options, qmanager, local, results, discardq, stats, cache,
                   level, seedst, recst>>

\* rlevel and plugin_rlevel set, no redirects and no plugins; /a is a
\* directory; the server may answer every path, or every path below /a, alike
InitRecursion ==
    \E o \in
        [transport : {"http/s"}, follow_redirects : {FALSE}, rlevel : {MaxRlevel},
         concurrent : {Concurrent}, baseline : {FALSE}, words : {Words},
         dirs : {{<<"a">>}}, fps : {{}, {<<>>}, {<<"a">>}},
         prefilter : {<<>>}, auto_filter : {FALSE}, filter : {<<>>},
         script : {""}, plugin_rlevel : {MaxRlevel}, chain : {0},
         limitrequests : BOOLEAN, LIMITREQUESTS_THRESHOLD : {0},
         scanmode : {TRUE}, failing : {{}}, domain_scope : {FALSE},
         link_host : {"h"}] :
       InitWith(o)

NextRecursion ==
    \/ Upstream_response
    \/ RecursiveQ_process
    \/ RecursiveQ_check_cache
    \/ RecursiveQ_send_seed

SpecRecursion == InitRecursion /\ [][NextRecursion]_vars

\* ================================================ the false positive check
\* status codes and word counts of candidates and junk answers
ProbeCodes == {200, 301, 404}
ProbeWords == {0, 1, 2}

\* Fuzzer.__init__ as in InitWith, for the parts of the session a study of
\* one function leaves alone
Constructed(o) ==
    /\ options = o
    /\ qmanager = BuildPipeline(o)
    /\ q = StartQueues
    /\ pool = <<>>
    /\ results = {}
    /\ discardq = <<>>
    /\ stats = [pending_seeds |-> 0, pending_fuzz |-> 0, processed |-> 0,
                backfeed |-> 0, seed_list |-> <<>>, cancelled |-> FALSE]
    /\ cache = [processed |-> {}, recursion |-> {}]
    /\ level = PRIORITY_STEP
    /\ seedst = [pc |-> "idle", seed |-> InitialSeed, idx |-> 0]

\* RecursiveQ holds a directory result and is about to call
\* false_positive_hit; the server's outcomes of the junk requests are fixed
InitProbe ==
    \E c \in ProbeCodes, w \in ProbeWords,
       junk1, junk2 \in {Failed} \cup {Answer(jc, jw) : jc \in ProbeCodes,
                                                      jw \in ProbeWords} :
       \E o \in PipeOptions :
          /\ o.dirs = {} /\ ~o.baseline
          /\ Constructed(o)
          /\ recst = [pc |-> "probe",
                      cur |-> [Item(RESULT, <<"a", "">>, PRIORITY_STEP, 0, 0,
                                    FALSE)
                                  EXCEPT !.code = c, !.words = w]]
          /\ local = [junk |-> <<junk1, junk2>>]
          /\ hist = [probe |-> <<>>]

\* the call false_positive_hit(seed, ...) of RecursiveQ.process
RecursiveQ_false_positive_hit ==
    /\ recst.pc = "probe"
    /\ LET seed == seed_from_recursion(recst.cur)
       IN hist' = [hist EXCEPT !.probe =
                     <<[hit |-> false_positive_hit(seed, local.junk[1],
                                                   local.junk[2]),
                        requests |-> junk_requests(seed, local.junk[1])]>>]
    /\ recst' = [recst EXCEPT !.pc = "probed"]
    /\ UNCHANGED <<options, qmanager, q, pool, results, discardq, stats, cache,
                   level, seedst, local>>

SpecProbe == InitProbe /\ [][RecursiveQ_false_positive_hit]_vars

\* ============================================== the response tracker
\* the number of distinct response identifiers the server produces
MaxIdentifiers == 16

\* AutofilterQ.process on a result as it arrives: a response with an
\* identifier not seen before (they come with codes 201, 202, ...), or one
\* more response with the first or the second identifier
AutofilterQ_process_result ==
    \E code \in {201, 202, 201 + hist.fed} :
       /\ code <= 200 + MaxIdentifiers
       /\ code <= 201 + hist.fed
       /\ LET it == [Recurring EXCEPT !.code = code]
              exempt == is_exempt(it)
              tracked == \/ local.filter_string = <<>>
                         \/ is_visible(local.filter_string, it)
          IN /\ local' = IF ~exempt /\ tracked
                          THEN update_response_tracker(local, it)
                          ELSE local
             /\ hist' = [fed |-> IF code = 201 + hist.fed THEN hist.fed + 1
                                 ELSE hist.fed,
                         auto |-> <<[id |-> response_identifier(it),
                                     exempt |-> exempt,
                                     out |-> IF exempt \/ tracked THEN "send"
                                             ELSE "discard"]>>]
       /\ UNCHANGED <<options, qmanager, q, pool, results, discardq, stats,
                      cache, level, seedst, recst>>

SpecTracker ==
    /\ \E o \in FilterOptions :
          /\ o.prefilter = <<>> /\ o.filter = <<>> /\ ~o.baseline
          /\ Constructed(o)
          /\ recst = [pc |-> "idle", cur |-> NoItem]
          /\ local = [filter_string |-> <<>>, response_tracker_dict |-> <<>>]
          /\ hist = [fed |-> 0, auto |-> <<>>]
    /\ [][AutofilterQ_process_result]_vars

\* ================================================= filter expressions
\* A filter expression is a sequence of operands [op, neg, atom]: op joins the
\* operand to what precedes it ("and" for the first), neg is a leading "not".
\* An atom is a comparison "sym = val", an operator call "sym|u()" or an
\* assignment "sym =+ val"; the symbols are code and r.url.
FilterAtoms ==
    {[kind |-> "cmp", sym |-> "code", val |-> 200],
     [kind |-> "cmp", sym |-> "r.url", val |-> <<"a">>],
     [kind |-> "assign", sym |-> "r.url", val |-> <<"x">>]}
    \cup {[kind |-> "unique", sym |-> y, val |-> 0] : y \in {"code", "r.url"}}

\* FuzzResFilter._compute_res_symbol: the field of the result
compute_res_symbol(fuzz_result, sym) ==
    IF sym = "code" THEN fuzz_result.code ELSE fuzz_result.url

\* variant of compute_atom: every atom is evaluated as a unique operator call
compute_atom_as_unique(atom, location, st) ==
    LET leftvalue == compute_res_symbol(st.fuzz_result, atom.sym)
    IN [value |-> leftvalue \notin st.cache[location],
        st |-> [st EXCEPT !.cache[location] = @ \cup {leftvalue}]]

\* FuzzResFilter.__compute_expr, its first lines: the stack of field paths
\* loses its top when it holds more than one, and what is then on top is
\* the field an assignment writes ("None" when the stack is empty)
compute_expr_field(stack) ==
    LET s1 == IF Len(stack) > 1 THEN Front(stack) ELSE stack
    IN [field_to_set |-> IF s1 # <<>> THEN Last(s1) ELSE "None",
        stack |-> IF s1 # <<>> THEN Front(s1) ELSE s1]

\* the parse actions of one atom: _get_field_value pushes the symbol's field
\* path, then __compute_expr for "=" and "=+" (adding a string to the
\* integer code is a TypeError, raised as FuzzExceptBadOptions), or
\* _get_operator_value for unique, whose set is kept per location; once an
\* action has raised, parseString is over and no further action runs.
\* "sym != val" compares the operands as they are: code is an integer and
\* r.url a string, a quoted val is a string and an unquoted one an integer,
\* and an integer and a string are never equal
compute_atom(atom, location, st) ==
    LET leftvalue == compute_res_symbol(st.fuzz_result, atom.sym)
        pushed == Append(st.stack, atom.sym)
        e == compute_expr_field(pushed)
    IN IF st.raised THEN [value |-> FALSE, st |-> st]
       ELSE CASE atom.kind = "cmp" ->
              [value |-> ToString(leftvalue) = ToString(atom.val),
               st |-> [st EXCEPT !.stack = e.stack]]
         [] atom.kind = "assign" ->
              IF e.field_to_set = "r.url"
              THEN [value |-> TRUE,
                    st |-> [st EXCEPT !.fuzz_result.url = @ \o atom.val,
                                      !.stack = e.stack,
                                      !.set = Append(@, [location |-> location,
                                                         field |-> e.field_to_set])]]
              ELSE [value |-> FALSE,
                    st |-> [st EXCEPT !.stack = e.stack, !.raised = TRUE,
                                      !.set = Append(@, [location |-> location,
                                                         field |-> e.field_to_set])]]
         [] atom.kind = "unique" ->
              [value |-> leftvalue \notin st.cache[location],
               st |-> [st EXCEPT !.cache[location] = @ \cup {leftvalue},
                                 !.stack = pushed]]
         [] atom.kind = "ne" ->
              [value |-> IF atom.quoted = (atom.sym = "code") THEN TRUE
                         ELSE leftvalue # atom.val,
               st |-> [st EXCEPT !.stack = e.stack]]

\* FuzzResFilter.__compute_not_operator
compute_not_operator(neg, value) == IF neg THEN ~value ELSE value

\* parseString: pyparsing runs the parse actions of every operand as it
\* matches it, left to right; the tokens handed to __myreduce are the
\* operands' values
RECURSIVE parse_operands(_, _, _)
parse_operands(expr, from, st) ==
    IF from > Len(expr) THEN [elements |-> <<>>, st |-> st]
    ELSE LET r == compute_atom(expr[from].atom, from, st)
             rest == parse_operands(expr, from + 1, r.st)
         IN [elements |-> <<compute_not_operator(expr[from].neg, r.value)>>
                             \o rest.elements,
             st |-> rest.st]

\* FuzzResFilter.__myreduce over the values: first = first and/or next
RECURSIVE myreduce(_, _, _, _)
myreduce(expr, elements, first, i) ==
    IF i > Len(elements) THEN first
    ELSE myreduce(expr, elements,
                  IF expr[i].op = "and" THEN first /\ elements[i]
                  ELSE first \/ elements[i],
                  i + 1)

\* a filter with an expression of at most MaxOperands operands, and a result
InitFilterExpr ==
    \E n \in 1..MaxOperands :
       \E expr \in [1..n -> [op : {"and", "or"}, neg : BOOLEAN,
                             atom : FilterAtoms]],
          code \in {200, 404}, o \in FilterOptions :
          /\ expr[1].op = "and"
          /\ ~o.baseline /\ o.prefilter = <<>> /\ o.filter = <<>>
          /\ Constructed(o)
          /\ recst = [pc |-> "idle", cur |-> NoItem]
          /\ local = [filter_string |-> expr,
                      fuzz_result |-> [code |-> code, url |-> <<"a">>],
                      cache |-> [l \in 1..MaxOperands |-> {}],
                      stack |-> <<>>]
          /\ hist = [evals |-> <<>>]

\* FuzzResFilter.is_filtered(fuzz_result) with the filter's own expression;
\* __myreduce empties the stack, unless a parse action raised before it ran
FuzzResFilter_is_filtered ==
    /\ Len(hist.evals) < MaxEvaluations
    /\ LET st == [fuzz_result |-> local.fuzz_result, cache |-> local.cache,
                  stack |-> local.stack, raised |-> FALSE, set |-> <<>>]
           parsed == parse_operands(local.filter_string, 1, st)
           value == myreduce(local.filter_string, parsed.elements,
                             parsed.elements[1], 2)
       IN /\ local' = [local EXCEPT !.fuzz_result = parsed.st.fuzz_result,
                                    !.cache = parsed.st.cache,
                                    !.stack = IF parsed.st.raised
                                              THEN parsed.st.stack ELSE <<>>]
          /\ hist' = [hist EXCEPT !.evals =
                         Append(@, [before |-> st, is_filtered |-> ~value,
                                    raised |-> parsed.st.raised,
                                    set |-> parsed.st.set])]
    /\ UNCHANGED <<options, qmanager, q, pool, results, discardq, stats, cache,
                   level, seedst, recst>>

SpecFilterExpr == InitFilterExpr /\ [][FuzzResFilter_is_filtered]_vars

\* --------------------------------------------------------------- claim C1
\* the ENDSEED items the stage after the transport stage holds or has processed
EndseedsDownstream ==
    {e \in hist.seen : e.type = ENDSEED}
    \cup {q["redirects_queue"][i].it : i \in
             {j \in 1..Len(q["redirects_queue"]) :
                 q["redirects_queue"][j].it.type = ENDSEED}}

\* C1: whenever the ENDSEED of a seed has been processed by the stage after the
\* transport stage, every request the seed stage emitted for that seed has
\* been processed by that stage before; and no ENDSEED is at that stage while a
\* request of its seed is still in the HTTP pool.
C1_EndseedAfterItsSeed ==
    /\ \A e \in hist.seen : e.type = ENDSEED =>
          \A r \in hist.emitted : r.priority = e.priority => r \in hist.seen
    /\ \A e \in EndseedsDownstream :
          \A i \in 1..Len(pool) :
             ~(pool[i] \in hist.emitted /\ pool[i].priority = e.priority)

\* -------------------------------------------------------------- claim C10
\* C10: stats.processed <= stats.pending_fuzz in every reachable state, the
\* baseline request and the backfeed requests of the redirect stage included.
C10_ProcessedAtMostPending == stats.processed <= stats.pending_fuzz

\* --------------------------------------------------------------- claim C2
\* C2: no recursion URL has had more than one SEED sent downstream, the SEEDs
\* of RecursiveQ and of all PluginExecutors counted together.
C2_OneSeedPerUrl ==
    \A i, j \in 1..Len(hist.seeds) :
       i # j => hist.seeds[i] # hist.seeds[j]

\* --------------------------------------------------------------- claim C3
\* C3: the priority RoutingQ assigns to a SEED is strictly greater than the
\* priority of the item that caused it and than the priority assigned to
\* every seed routed before it.
C3_RoutedPriorityGrows ==
    \A i \in 1..Len(hist.routed) :
       /\ hist.routed[i].assigned > hist.routed[i].cause
       /\ \A j \in 1..(i - 1) :
             hist.routed[i].assigned > hist.routed[j].assigned

\* three seeds routed, the last two caused by results of older seeds
C3_Witness ==
    /\ Len(hist.routed) >= 3
    /\ hist.routed[2].cause = PRIORITY_STEP
    /\ hist.routed[3].cause = hist.routed[1].assigned

\* --------------------------------------------------------------- claim C4
\* C4 as stated: the priority assigned to a routed SEED is exactly
\* PRIORITY_STEP above the priority of the seed it was derived from.
C4_StepAboveParent ==
    \A i \in 1..Len(hist.routed) :
       hist.routed[i].assigned = hist.routed[i].cause + PRIORITY_STEP

\* C4 amended: the priority assigned to the n-th routed SEED is exactly
\* PRIORITY_STEP above the priority assigned to the seed routed before it
\* (above the compiled seed's for the first), whatever seed it derives from;
\* the queue entry of the seed carries that priority.
C4_StepAboveLastRouted ==
    /\ \A i \in 1..Len(hist.routed) :
          hist.routed[i].assigned =
             (IF i = 1 THEN PRIORITY_STEP ELSE hist.routed[i - 1].assigned)
             + PRIORITY_STEP
    /\ level = PRIORITY_STEP * (Len(hist.routed) + 1)
    /\ \A i \in 1..Len(q["seed_queue"]) :
          q["seed_queue"][i].it.type = SEED =>
             /\ q["seed_queue"][i].k = q["seed_queue"][i].it.priority
             /\ \E n \in 1..Len(hist.routed) :
                   hist.routed[n].assigned = q["seed_queue"][i].it.priority

\* two seeds derived from the compiled seed have both been routed
C4_Witness ==
    /\ Len(hist.routed) >= 2
    /\ hist.routed[1].cause = PRIORITY_STEP
    /\ hist.routed[2].cause = PRIORITY_STEP

\* --------------------------------------------------------------- claim C5
\* what AutofilterQ did with the results of identifier id, in order
AutoOutcomes(id) ==
    SelectSeq(hist.auto, LAMBDA e : e.id = id /\ ~e.exempt)

RecurringId == [c |-> Recurring.code, l |-> Recurring.lines,
                w |-> Recurring.words]

\* C5 as stated: while AutofilterQ has seen nothing but results of one
\* (code, lines, words) identifier, exactly the first 9 of them are forwarded
\* and the 10th and later are discarded; from the 10th on the filter string
\* holds the clause "not (c=.. and l=.. and w=..)".
C5_FirstNineForwarded ==
    (\A i \in 1..Len(hist.auto) : hist.auto[i].id = RecurringId) =>
       /\ \A k \in 1..Len(hist.auto) :
             hist.auto[k].out = "send" <=> k <= 9
       /\ Len(hist.auto) >= 10 =>
             \E i \in 1..Len(local.filter_string) :
                local.filter_string[i] = [neg |-> TRUE, id |-> RecurringId]

\* C5 amended: of the results of one identifier (HEAD/200 and errored results
\* aside) AutofilterQ forwards exactly the first 10, the 10th being the one
\* that puts the clause "not (c=.. and l=.. and w=..)" in the filter string,
\* and discards the 11th and later.
C5_FirstTenForwarded ==
    \A e \in {hist.auto[i] : i \in 1..Len(hist.auto)} :
       ~e.exempt =>
          /\ \A k \in 1..Len(AutoOutcomes(e.id)) :
                AutoOutcomes(e.id)[k].out = "send" <=> k <= RecurringHits
          /\ Len(AutoOutcomes(e.id)) >= RecurringHits <=>
                \E i \in 1..Len(local.filter_string) :
                   local.filter_string[i] = [neg |-> TRUE, id |-> e.id]

\* eleven results of the recurring response went through AutofilterQ and
\* nothing else did: ten forwarded, one discarded
C5_Witness ==
    /\ Len(hist.auto) = 11
    /\ \A i \in 1..11 : hist.auto[i].id = RecurringId
    /\ hist.auto[10].out = "send"
    /\ hist.auto[11].out = "discard"

\* --------------------------------------------------------------- claim C6
\* C6: AutofilterQ never discards the first result of an identifier: a
\* discarded result was preceded by a forwarded result of the same identifier.
C6_FirstOccurrenceKept ==
    \A i \in 1..Len(hist.auto) :
       hist.auto[i].out = "discard" =>
          \E j \in 1..(i - 1) :
             /\ hist.auto[j].id = hist.auto[i].id
             /\ hist.auto[j].out = "send"

\* with the filter already discarding the recurring response, the first
\* result of another identifier with the same code and lines is forwarded
C6_Witness ==
    \E i \in 1..Len(hist.auto) :
       /\ hist.auto[i].id = [RecurringId EXCEPT !.w = 1]
       /\ hist.auto[i].out = "send"
       /\ \A j \in 1..(i - 1) : hist.auto[j].id # hist.auto[i].id
       /\ \E j \in 1..(i - 1) : hist.auto[j].out = "discard"

\* --------------------------------------------------------------- claim C7
\* every item the stages, the executors and the HTTP pool hold
ItemsInPipeline ==
    UNION {{q[n][i].it : i \in 1..Len(q[n])} : n \in StageNames}
    \cup {pool[i] : i \in 1..Len(pool)}
    \cup {local.executors[e].cur : e \in 1..ConcurrentPlugins}
    \cup UNION {{local.executors[e].queue[i].it :
                    i \in 1..Len(local.executors[e].queue)} :
                 e \in 1..ConcurrentPlugins}
    \cup results

\* C7: every item in the pipeline has a backfeed_level of at most 15, whether
\* a plugin or the redirect stage made it.
C7_BackfeedLevelBounded ==
    \A it \in ItemsInPipeline : it.backfeed_level <= 15

\* --------------------------------------------------------------- claim C8
\* C8: a BACKFEED seed of a plugin that is in scope and not in the processed
\* cache is enqueued when its backfeed_level is at most 15, and is otherwise
\* answered with an info finding and not enqueued.
C8_EnqueuedUpToFifteen ==
    \A b \in hist.backfeeds :
       IF b.level <= 15 THEN b.out = "send" ELSE b.out = "finding"

\* --------------------------------------------------------------- claim C9
InPipeline(n) == \E i \in 1..Len(qmanager) : qmanager[i] = n

\* C9: a step in which SliceQ, AutofilterQ or FilterQ takes a RESULT off its
\* input either puts that result in the next stage's input and leaves the
\* discard channel alone, or appends it to the discard channel and leaves the
\* next stage's input alone, never both and never neither; SliceQ and FilterQ
\* always forward the baseline.
C9_ForwardedOrDiscarded ==
    [][\A n \in {"slice_queue_0", "autofilter_queue", "filter_queue"} :
         (/\ InPipeline(n)
          /\ q[n] # <<>>
          /\ q'[n] = Tail(q[n])
          /\ Head1(n).type = RESULT) =>
            LET it == Head1(n)
                nx == NextStage(n)
                fwd == q'[nx] = put(q[nx], it) /\ discardq' = discardq
                dsc == /\ discardq' = Append(discardq,
                                             [it EXCEPT !.discarded = TRUE])
                       /\ q'[nx] = q[nx]
            IN /\ fwd \/ dsc
               /\ ~(fwd /\ dsc)
               /\ (it.is_baseline /\ n # "autofilter_queue") => fwd]_vars

\* the baseline, which the prefilter and the filter both hide, has passed
\* SliceQ and FilterQ; SliceQ and AutofilterQ have each discarded a result
C9_Witness ==
    /\ options.prefilter = HideOther /\ options.filter = HideOther
    /\ \E r \in results : r.is_baseline
    /\ \E i \in 1..Len(discardq) : discardq[i].words = 1
    /\ \E i \in 1..Len(discardq) : discardq[i].words = 2

\* -------------------------------------------------------------- claim C11
\* C11: false_positive_hit is true when the first junk answer has the
\* candidate's status and word count; false when its status differs, with no
\* second junk request; with equal status and another word count a second
\* request with another junk string is sent, and the result is false when
\* the two junk answers agree in status and word count and true otherwise; a
\* junk request that raises an exception gives false; at most two junk
\* requests are sent.
C11_FalsePositiveDecision ==
    hist.probe # <<>> =>
        LET cand == recst.cur
            j1 == local.junk[1]
            j2 == local.junk[2]
            out == hist.probe[1]
            n == Len(out.requests)
        IN /\ n \in {1, 2}
           /\ ~j1.ok => ~out.hit /\ n = 1
           /\ j1.ok /\ j1.code = cand.code /\ j1.words = cand.words
                 => out.hit /\ n = 1
           /\ j1.ok /\ j1.code # cand.code => ~out.hit /\ n = 1
           /\ j1.ok /\ j1.code = cand.code /\ j1.words # cand.words
                 => /\ n = 2
                    /\ out.requests[1] # out.requests[2]
                    /\ ~j2.ok => ~out.hit
                    /\ j2.ok => (out.hit <=> ~(j2.code = j1.code
                                               /\ j2.words = j1.words))

\* the second junk request was sent, its answer differs from the first, and
\* the candidate is taken for a false positive
C11_Witness ==
    /\ hist.probe # <<>>
    /\ Len(hist.probe[1].requests) = 2
    /\ local.junk[2].ok
    /\ local.junk[2] # local.junk[1]
    /\ hist.probe[1].hit

\* -------------------------------------------------------------- claim C12
\* C12: RecursiveQ sends a SEED for a result only if the result is a
\* directory, its recursion URL is not in the recursion cache, the
\* limit-requests threshold is not exceeded, the depth limit that applies
\* (plugin_rlevel for a result of a plugin, rlevel otherwise) is not reached
\* and the false-positive check reports a real hit; a server that answers
\* every path alike never makes it send a SEED; and every result is in
\* exactly one place: waiting, in hand, or forwarded once.
C12_SeedOnlyForRealDirectory ==
    /\ [](Holds("recursive_queue", RESULT) + Holds("routing_queue", RESULT)
            + (IF recst.cur = NoItem THEN 0 ELSE 1) = hist.fed)
    /\ [](<<>> \in options.fps => Holds("routing_queue", SEED) = 0)
    /\ [][recst.pc = "idle" /\ recst'.pc = "gate" =>
            LET it == Head1("recursive_queue")
                dir == parse_recursion_url(it.url)
            IN /\ Last(it.url) = "" \/ it.code = 301
               /\ dir \notin cache.recursion
               /\ ~(options.limitrequests
                     /\ Len(pool) > options.LIMITREQUESTS_THRESHOLD)
               /\ IF it.from_plugin
                  THEN it.plugin_rlevel < options.plugin_rlevel
                  ELSE it.rlevel < options.rlevel
               /\ Code(dir \o <<"thisdoesnotexist123">>) # it.code]_vars
    /\ [][Holds("routing_queue", SEED)' # Holds("routing_queue", SEED) =>
            /\ recst.pc = "send"
            /\ parse_recursion_url(recst.cur.url) \notin cache.recursion
            /\ Holds("routing_queue", SEED)'
                  = Holds("routing_queue", SEED) + 1]_vars
    /\ [][recst'.pc = "send" => recst.pc \in {"gate", "send"}]_vars

\* a SEED was sent for a result of a plugin, and the result went on as well
C12_Witness ==
    /\ \E i \in 1..Len(q["routing_queue"]) :
          /\ q["routing_queue"][i].it.type = SEED
          /\ q["routing_queue"][i].it.from_plugin
    /\ Holds("routing_queue", RESULT) = hist.fed

\* -------------------------------------------------------------- claim C13
\* C13: evaluating the same filter expression twice on the same result gives
\* the same verdict, for every expression of the filter grammar.
C13_SameVerdictTwice ==
    Len(hist.evals) >= 2 =>
        hist.evals[1].is_filtered = hist.evals[2].is_filtered

\* C13 as it holds: the two verdicts agree for every expression that has
\* neither a unique operator call nor an assignment
C13_SameVerdictTwiceWhenPure ==
    /\ Len(hist.evals) >= 2
    /\ \A i \in 1..Len(local.filter_string) :
          local.filter_string[i].atom.kind = "cmp"
    => \A i \in 2..Len(hist.evals) :
          hist.evals[i].is_filtered = hist.evals[1].is_filtered

\* an expression of comparisons joined by both "and" and "or" was evaluated
\* twice and let the result pass
C13_Witness ==
    /\ Len(hist.evals) = 2
    /\ Len(local.filter_string) = 3
    /\ \A i \in 1..3 : local.filter_string[i].atom.kind = "cmp"
    /\ local.filter_string[2].op = "or" /\ local.filter_string[3].op = "and"
    /\ ~hist.evals[2].is_filtered

\* -------------------------------------------------------------- claim C14
\* C14: "and"/"or" are evaluated left-associatively and short-circuiting:
\* the value is the left-to-right fold of the operands, and an operand whose
\* left side already decides the result is not evaluated, so that its side
\* effects (the unique bookkeeping, the assignments) do not take place.
C14_ShortCircuitFold ==
    Len(hist.evals) >= 1 =>
        LET expr == local.filter_string
            after == IF Len(hist.evals) = 1 THEN local
                     ELSE hist.evals[2].before
            RECURSIVE fold(_, _, _)
            fold(i, first, st) ==
                IF i > Len(expr) THEN [value |-> first, st |-> st]
                ELSE IF \/ expr[i].op = "and" /\ ~first
                        \/ expr[i].op = "or" /\ first
                THEN fold(i + 1, first, st)
                ELSE LET r == compute_atom(expr[i].atom, i, st)
                     IN fold(i + 1, compute_not_operator(expr[i].neg, r.value),
                             r.st)
            head == compute_atom(expr[1].atom, 1, hist.evals[1].before)
            ref == fold(2, compute_not_operator(expr[1].neg, head.value),
                        head.st)
        IN /\ hist.evals[1].is_filtered = ~ref.value
           /\ after.fuzz_result = ref.st.fuzz_result
           /\ after.cache = ref.st.cache

\* -------------------------------------------------------------- claim C15
\* C15: in scanmode a result with a transport exception is forwarded
\* downstream like any other result and no error item is raised; with
\* scanmode off such a result is never forwarded: it becomes an error item
\* in the results queue, and the run is cancelled only for such an item.
C15_ScanmodeForwardsElseRaises ==
    /\ [](options.scanmode => \A r \in results : r.type # "ERROR")
    /\ [](~options.scanmode =>
            \A it \in ItemsInPipeline \cup results :
                it.exception => it.type = "ERROR")
    /\ [][\A i \in 1..Len(pool) :
            pool' = SubSeq(pool, 1, i - 1) \o SubSeq(pool, i + 1, Len(pool)) =>
              IF pool[i].url \in options.failing /\ ~options.scanmode
              THEN /\ q' = q
                   /\ \E r \in results' :
                         /\ r.type = "ERROR" /\ r.url = pool[i].url
                         /\ r.exception
              ELSE /\ results' = results
                   /\ \E k \in 1..Len(q'[NextStage("transport_queue")]) :
                         LET it == q'[NextStage("transport_queue")][k].it
                         IN /\ it.type = RESULT /\ it.url = pool[i].url
                            /\ it.exception = (it.url \in options.failing)
                   /\ Len(q'[NextStage("transport_queue")])
                         = Len(q[NextStage("transport_queue")]) + 1]_vars
    /\ [][stats'.cancelled /\ ~stats.cancelled =>
            \E r \in results : r.type = "ERROR" /\ r.exception]_vars

\* scanmode is off, the request of /a failed, its exception was raised from
\* the results iterator and the run is cancelled
C15_Witness ==
    /\ ~options.scanmode
    /\ stats.cancelled
    /\ \E r \in results : r.type = "ERROR" /\ r.url = <<"a">>

C17_PausedStartsNoRequest ==
    /\ [][~local.pause =>
            {pool'[i] : i \in 1..Min(options.concurrent, Len(pool'))}
            \subseteq {pool[i] : i \in PoolRunning}]_vars
    /\ [](\A u \in {<<"">>, <<"a">>} :
            Cardinality({i \in 1..Len(q["transport_queue"]) :
                           q["transport_queue"][i].it.url = u
                           /\ q["transport_queue"][i].it.type = RESULT})
            + Cardinality({i \in 1..Len(pool) : pool[i].url = u})
            + Cardinality({i \in 1..Len(q["printer_cli"]) :
                             q["printer_cli"][i].it.url = u})
            + Cardinality({r \in results : r.url = u}) <= 1)
    /\ \A u \in {<<"">>, <<"a">>} :
          (/\ local.pause
           /\ \/ \E i \in 1..Len(q["transport_queue"]) :
                    q["transport_queue"][i].it.url = u
              \/ \E i \in 1..Len(pool) : pool[i].url = u)
          ~> (~local.pause \/ \E r \in results : r.url = u)

C19_NoBackfeedOrSeedAtPrinter ==
    /\ \A i \in 1..Len(q["printer_cli"]) :
          q["printer_cli"][i].it.type \notin {BACKFEED, SEED}
    /\ \A r \in results : r.type \notin {BACKFEED, SEED}

C21_ParentSeedDrainsFirst ==
    [][(/\ q["transport_queue"] # <<>>
        /\ q'["transport_queue"] = Tail(q["transport_queue"])
        /\ Len(pool') = Len(pool) + 1)
       => LET taken == Head1("transport_queue")
              emitted(it) ==
                  IF Last(it.url) = "" THEN 0
                  ELSE CHOOSE i \in 1..Len(options.words) :
                           options.words[i] = Last(it.url)
          IN \A j \in 2..Len(q["transport_queue"]) :
                LET other == q["transport_queue"][j].it
                IN other.type = RESULT =>
                     /\ ~(/\ Len(other.url) < Len(taken.url)
                          /\ Front(other.url)
                               = SubSeq(taken.url, 1, Len(other.url) - 1))
                     /\ Front(other.url) = Front(taken.url)
                        => emitted(taken) < emitted(other)]_vars

\* the transport input holds a request of the first seed and, behind it, a
\* request of the seed for /a/
C21_Witness ==
    \E i, j \in 1..Len(q["transport_queue"]) :
        /\ i < j
        /\ q["transport_queue"][i].it.url = <<"a">>
        /\ q["transport_queue"][i].it.type = RESULT
        /\ q["transport_queue"][j].it.type = RESULT
        /\ Front(q["transport_queue"][j].it.url) = <<"a">>

\* -------------------------------------------------------------- claim C22
\* C22: for every STARTSEED or SEED item the seed stage processes it sends
\* exactly one ENDSEED, behind the last request it emits for that seed and
\* carrying that seed's priority, also when the emission is cut short by
\* cancellation or skipped because of the limit-requests threshold.
C22_OneEndseedPerSeed ==
    /\ [][(seedst.pc # "idle" /\ seedst'.pc = "idle")
            => /\ Holds(SeedOut, ENDSEED)' = Holds(SeedOut, ENDSEED) + 1
               /\ Last(q'[SeedOut]).it.type = ENDSEED
               /\ Last(q'[SeedOut]).it.priority = seedst.seed.priority]_vars
    /\ [][Holds(SeedOut, ENDSEED)' > Holds(SeedOut, ENDSEED)
            => (seedst.pc # "idle" /\ seedst'.pc = "idle")]_vars
    /\ [][(seedst.pc = "idle" /\ seedst'.pc # "idle")
            => /\ Head1("seed_queue").type \in {STARTSEED, SEED}
               /\ Head1("seed_queue").type = SEED
                  => seedst'.seed.priority = Head1("seed_queue").priority]_vars
    /\ (seedst.pc # "idle") ~> (seedst.pc = "idle")

\* the seed for /a/ has been ended without its dictionary because of the
\* limit, or with its dictionary cut short by the cancellation
C22_Witness ==
    /\ seedst.pc = "idle"
    /\ seedst.seed.url = <<"a">>
    /\ \/ /\ options.limitrequests
          /\ <<"a", "">> \notin cache.processed
       \/ /\ stats.cancelled
          /\ <<"a", "">> \in cache.processed
          /\ <<"a", "a">> \notin cache.processed

\* -------------------------------------------------------------- claim C23
\* C23: when processing a result brings an identifier's count to 10, "not
\* (identifier)" is appended to the filter string, joined by "and" to what it
\* holds, and the identifier leaves the tracker; the filter string changes
\* in no other way, and no identifier in the tracker has a count above 9.
C23_TenthHitFilters ==
    /\ [](\A i \in 1..Len(local.response_tracker_dict) :
             local.response_tracker_dict[i].n <= 9)
    /\ [][LET done == hist'.auto[1]
              tenth == /\ done.out = "send" /\ ~done.exempt
                       /\ \E i \in 1..Len(local.response_tracker_dict) :
                             /\ local.response_tracker_dict[i].id = done.id
                             /\ local.response_tracker_dict[i].n = 9
          IN IF tenth
             THEN /\ local'.filter_string
                       = local.filter_string
                         \o <<[neg |-> TRUE, id |-> done.id]>>
                  /\ \A i \in 1..Len(local'.response_tracker_dict) :
                        local'.response_tracker_dict[i].id # done.id
             ELSE local'.filter_string = local.filter_string]_vars

\* two identifiers have reached ten hits, one after the other
C23_Witness ==
    /\ Len(local.filter_string) = 2
    /\ local.filter_string[1].id # local.filter_string[2].id
    /\ \A i \in 1..Len(local.response_tracker_dict) :
          /\ local.response_tracker_dict[i].id # local.filter_string[1].id
          /\ local.response_tracker_dict[i].id # local.filter_string[2].id

\* -------------------------------------------------------------- claim C24
\* C24: a HEAD result with code 200, or a result carrying the error code, is
\* always forwarded by the auto-filter stage, and the response tracker and
\* the filter string are left as they were.
C24_ExemptForwardedUntouched ==
    [][(/\ q["autofilter_queue"] # <<>>
        /\ q'["autofilter_queue"] = Tail(q["autofilter_queue"])
        /\ Head1("autofilter_queue").type = RESULT
        /\ \/ /\ Head1("autofilter_queue").method = "HEAD"
              /\ Head1("autofilter_queue").code = 200
           \/ Head1("autofilter_queue").code = ERROR_CODE)
       => /\ local' = local
          /\ discardq' = discardq
          /\ q'[NextStage("autofilter_queue")]
               = put(q[NextStage("autofilter_queue")],
                     Head1("autofilter_queue"))]_vars

\* with a clause in the filter string, a HEAD result with code 200 and an
\* errored result have passed the stage
C24_Witness ==
    /\ local.filter_string # <<>>
    /\ Len(hist.auto) > RecurringHits
    /\ hist.auto[Len(hist.auto)].exempt
    /\ hist.auto[Len(hist.auto)].out = "send"

C26_NoDuplicateNegation ==
    \A i, j \in 1..Len(local.filter_string) :
        local.filter_string[i].id = local.filter_string[j].id => i = j

\* a result whose identifier is in the filter string has arrived and was
\* discarded
C26_Witness ==
    /\ hist.auto # <<>>
    /\ hist.auto[1].out = "discard"
    /\ \E i \in 1..Len(local.filter_string) :
          local.filter_string[i].id = hist.auto[1].id

\* -------------------------------------------------------------- claim C27
\* C27: in every filter expression an assignment comparison writes to the
\* field named by its own left-hand field path, not to a field named by an
\* earlier term of the expression, and the comparison evaluates to true
\* (it does not raise).
C27_AssignsToOwnField ==
    \A k \in 1..Len(hist.evals) :
       LET ev == hist.evals[k]
           expr == local.filter_string
       IN /\ ~ev.raised
          /\ \A w \in 1..Len(ev.set) :
                ev.set[w].field = expr[ev.set[w].location].atom.sym
          /\ \A i \in 1..Len(expr) :
                expr[i].atom.kind = "assign" =>
                   \E w \in 1..Len(ev.set) : ev.set[w].location = i

\* -------------------------------------------------------------- claim C28
\* C28: with a baseline request configured, handling the STARTSEED puts the
\* baseline on the seed stage's output before any other request of the
\* initial seed, and the seed stage emits no further request as long as
\* stats.processed is 0 and the run is not cancelled.
C28_BaselineFirstAndAwaited ==
    /\ [](/\ options.baseline /\ stats.processed = 0 /\ ~stats.cancelled
          => hist.emitted = {})
    /\ [][(/\ options.baseline
            /\ seedst.pc = "idle" /\ seedst'.pc # "idle"
            /\ Head1("seed_queue").type = STARTSEED)
           => /\ hist.emitted = {}
              /\ seedst'.pc = "baseline"
              /\ Len(q'[SeedOut]) = 1
              /\ q'[SeedOut][1].it = compiled_baseline
              /\ stats'.pending_fuzz = stats.pending_fuzz + 1]_vars
    /\ [][(/\ options.baseline
            /\ stats.processed = 0 /\ ~stats.cancelled)
           => q'[SeedOut] = q[SeedOut]
              \/ Len(q'[SeedOut]) < Len(q[SeedOut])
              \/ seedst.pc = "idle"]_vars

\* the baseline was awaited and processed, and the dictionary followed it
C28_Witness ==
    /\ options.baseline
    /\ stats.processed > 0
    /\ hist.emitted # {}
    /\ \E r \in results : r.is_baseline

\* -------------------------------------------------------------- claim C29
\* C29: when the seed stage's send puts an item that is not discarded on the
\* output queue, the queue held at most concurrent * 5 items just before;
\* an output queue that holds only what the seed stage's send has put there
\* (requests of the dictionary: neither the baseline, which send_first puts,
\* nor the ENDSEED, which send_last puts) never holds more than
\* concurrent * 5 + 1 items; a discarded item goes to the discard queue and
\* not to the output.
C29_OutputBounded ==
    /\ []((\A i \in 1..Len(q[SeedOut]) :
              q[SeedOut][i].it \in hist.emitted)
          => Len(q[SeedOut]) <= options.concurrent * 5 + 1)
    /\ [][(seedst.pc \in {"root", "dict"} /\ hist.emitted' # hist.emitted)
           => \E fr \in hist.emitted' \ hist.emitted :
                 IF fr.discarded
                 THEN /\ q' = q
                      /\ discardq' = Append(discardq, fr)
                 ELSE /\ Len(q[SeedOut]) <= options.concurrent * 5
                      /\ q' = SendQ(q, "seed_queue", fr)
                      /\ discardq' = discardq]_vars

\* the output holds concurrent * 5 + 1 requests and the seed stage waits
\* with the next word of the dictionary
C29_Witness ==
    /\ Len(q[SeedOut]) = options.concurrent * 5 + 1
    /\ seedst.pc = "dict"
    /\ seedst.idx <= Len(options.words)
    /\ ~cached("processed", <<options.words[seedst.idx]>>)

\* -------------------------------------------------------------- claim C30
\* the requests the seed stage has emitted: those of the dictionary and,
\* once the STARTSEED was handled with a baseline configured, the baseline
SeedStageEmitted ==
    hist.emitted \cup (IF options.baseline /\ stats.pending_seeds > 0
                       THEN {compiled_baseline} ELSE {})

\* C30: within one run the seed stage never emits two requests with the same
\* URL: the URL of every request it has emitted is in the processed cache,
\* and pending_fuzz counts the emitted requests.
C30_NoUrlEmittedTwice ==
    /\ \A a, b \in SeedStageEmitted : a.url = b.url => a = b
    /\ \A a \in SeedStageEmitted : cached("processed", a.url)
    /\ stats.pending_fuzz = Cardinality(SeedStageEmitted)

\* C30 as it holds: the seed stage never emits two requests of its
\* dictionary (the directory-root request included) with the same URL: such
\* a request is emitted only if its URL was not in the processed cache,
\* emitting it inserts the URL, and pending_fuzz grows by one for an emitted
\* request and not at all for a skipped one; the baseline request is
\* emitted, and counted in pending_fuzz, without the cache being read or
\* written.
C30_NoDictionaryUrlTwice ==
    /\ [](/\ \A a \in hist.emitted : cached("processed", a.url)
          /\ stats.pending_fuzz =
                Cardinality(hist.emitted)
                + Cardinality(SeedStageEmitted \ hist.emitted))
    /\ [][(seedst.pc \in {"root", "dict"} /\ seedst'.idx # seedst.idx)
           => LET word == IF seedst.pc = "root" THEN ""
                          ELSE options.words[seedst.idx]
                  fr == fuzzres_from_options_and_dict(seedst.seed, word)
              IN IF cached("processed", fr.url)
                 THEN /\ q' = q /\ cache' = cache
                      /\ stats'.pending_fuzz = stats.pending_fuzz
                      /\ hist'.emitted = hist.emitted
                 ELSE /\ \A a \in hist.emitted : a.url # fr.url
                      /\ hist'.emitted = hist.emitted \cup {fr}
                      /\ q' = SendQ(q, "seed_queue", fr)
                      /\ cache'.processed = cache.processed \cup {fr.url}
                      /\ stats'.pending_fuzz = stats.pending_fuzz + 1]_vars
    /\ [][(seedst.pc = "idle" /\ seedst'.pc = "baseline")
           => /\ cache'.processed = cache.processed
              /\ stats'.pending_fuzz = stats.pending_fuzz + 1]_vars

\* the dictionary a, BBB, a, "" was sent after the baseline: the second a
\* and the empty word were skipped, the word of the baseline was not
C30_Witness ==
    /\ options.baseline
    /\ options.words = DictionaryWords
    /\ seedst.pc = "idle" /\ seedst.idx > Len(options.words)
    /\ {a.url : a \in hist.emitted} = {<<"">>, <<"a">>, <<"BBB">>}
    /\ stats.pending_fuzz = 4

\* -------------------------------------------------------------- claim C31
\* C31: when the payload iterator is empty as a seed's dictionary is emitted,
\* the seed stage raises a configuration error instead of completing the
\* seed: the error reaches the results queue, and no request other than the
\* directory-root request and no ENDSEED is sent for the seed.
C31_EmptyDictionaryRaises ==
    /\ [](Len(options.words) = 0
          => /\ \A fr \in hist.emitted : fr.url = <<"">>
             /\ \A n \in DOMAIN q : Holds(n, ENDSEED) = 0
             /\ \A r \in results : r.type # ENDSEED)
    /\ [][(Len(options.words) = 0 /\ seedst.pc = "dict" /\ seedst'.pc # "dict")
           => /\ q' = q
              /\ \E r \in results' \ results :
                    r.type = "ERROR" /\ r.exception
              /\ seedst'.pc = "idle"]_vars

\* the directory-root request of a seed with an empty dictionary was sent
\* and the error is in the results queue
C31_Witness ==
    /\ Len(options.words) = 0
    /\ seedst.pc = "idle"
    /\ \E fr \in hist.emitted : fr.url = <<"">>
    /\ \E r \in results : r.type = "ERROR" /\ r.url = <<>>

\* -------------------------------------------------------------- claim C32
\* C32: routing a BACKFEED increments the backfeed counter and nothing else
\* of the stats, and puts the item as it is on the transport input;
\* pending_seeds, seed_list, the item's priority and the session's current
\* priority level change only when a SEED is routed, each once per SEED.
C32_BackfeedLeavesSeedStateAlone ==
    /\ [][(/\ q["routing_queue"] # <<>>
            /\ q'["routing_queue"] = Tail(q["routing_queue"]))
           => LET it == Head1("routing_queue")
                  Q1 == Dequeue(q, "routing_queue")
              IN CASE it.type = BACKFEED ->
                        /\ stats' = [stats EXCEPT !.backfeed = @ + 1]
                        /\ level' = level
                        /\ q' = [Q1 EXCEPT !["transport_queue"] = put(@, it)]
                   [] it.type = SEED ->
                        /\ level' = level + PRIORITY_STEP
                        /\ stats' = [stats EXCEPT
                                        !.pending_seeds = @ + 1,
                                        !.seed_list = Append(@, it.url)]
                        /\ q' = [Q1 EXCEPT !["seed_queue"] =
                                    put(@, [it EXCEPT !.priority = level'])]
                   [] OTHER -> stats' = stats /\ level' = level]_vars
    /\ [][(\/ level' # level
            \/ stats'.seed_list # stats.seed_list
            \/ stats'.pending_seeds # stats.pending_seeds)
           => /\ q["routing_queue"] # <<>>
              /\ q'["routing_queue"] = Tail(q["routing_queue"])
              /\ Head1("routing_queue").type = SEED]_vars

\* a BACKFEED was routed after a SEED: it is on the transport input with the
\* priority it came with, below the current priority level
C32_Witness ==
    /\ stats.backfeed > 0
    /\ stats.pending_seeds > 0
    /\ \E i \in 1..Len(q["transport_queue"]) :
          /\ q["transport_queue"][i].it.type = BACKFEED
          /\ q["transport_queue"][i].it.priority < level

PluginExecutor_validate(e) ==
    /\ local.executors[e].pc = "idle"
    /\ local.executors[e].queue # <<>>
    /\ LET it == Head(local.executors[e].queue).it
       IN local' = [local EXCEPT !.executors[e] =
                       [pc |-> IF local.disabled THEN "results" ELSE "validated",
                        queue |-> Tail(@.queue), cur |-> it, outs |-> <<>>,
                        queued_dict |-> [queued_requests |-> 0, queued_seeds |-> 0],
                        sent |-> [requests |-> 0, seeds |-> 0]]]
    /\ UNCHANGED <<options, qmanager, q, pool, results, discardq, stats, cache,
                   level, seedst, recst, hist>>

\* PluginExecutor.process after the test: plugin.disabled = True, the plugin
\* thread is started and joined
PluginExecutor_run_once(e) ==
    /\ local.executors[e].pc = "validated"
    /\ local' = [local EXCEPT !.disabled = TRUE,
                              !.executors[e].pc = "results",
                              !.executors[e].outs =
                                  PluginOutputs(local.executors[e].cur)]
    /\ hist' = [hist EXCEPT !.runs = Append(@, local.executors[e].cur.url)]
    /\ UNCHANGED <<options, qmanager, q, pool, results, discardq, stats, cache,
                   level, seedst, recst>>

SpecRunOnce ==
    /\ \E o \in PluginOptions : InitWith([o EXCEPT !.script = "once"])
    /\ [][\/ SeedQueue_process
          \/ SeedQueue_send_root
          \/ SeedQueue_send_dictionary
          \/ SeedQueue_end_seed
          \/ HttpQueue_process
          \/ HttpQueue_read_http_results
          \/ PluginQueue_process
          \/ \E e \in 1..ConcurrentPlugins : PluginExecutor_validate(e)
          \/ \E e \in 1..ConcurrentPlugins : PluginExecutor_run_once(e)
          \/ \E e \in 1..ConcurrentPlugins : PluginExecutor_process_results(e)
          \/ \E e \in 1..ConcurrentPlugins : PluginExecutor_check_cache(e)
          \/ \E e \in 1..ConcurrentPlugins : PluginExecutor_send(e)
          \/ RoutingQ_process
          \/ CLIPrinterQ_process]_vars

\* -------------------------------------------------------------- claim C34
\* C34: a plugin marked run_once is run for at most one result during a run,
\* whichever of the parallel PluginExecutor workers sharing the plugin list
\* the results are handed to.
C34_RunOnceRunsOnce == Len(hist.runs) <= 1

\* ============================================================ command line
\* the number of payload options on the command line
MaxOptions == 4

\* parse_cl, one turn of the loop over opts: -z and -w close the payload
\* group collected so far, if any, and every payload option is put into the
\* group being collected; the value is appended to optsd[option]
parse_cl_option ==
    /\ local.pc = "opts"
    /\ local.opts # <<>>
    /\ LET option == Head(local.opts).option
           value == Head(local.opts).value
           closes == option \in {"-z", "-w"} /\ DOMAIN local.payload_cache # {}
           group == IF closes THEN <<>> ELSE local.payload_cache
       IN local' = [local EXCEPT
             !.opts = Tail(@),
             !.payload = IF closes THEN Append(@, local.payload_cache) ELSE @,
             !.payload_cache =
                 [x \in DOMAIN group \cup {option} |->
                     IF x = option THEN value ELSE group[x]],
             !.optsd =
                 [x \in DOMAIN @ \cup {option} |->
                     IF x \in DOMAIN @
                     THEN IF x = option THEN Append(@[x], value) ELSE @[x]
                     ELSE <<value>>]]
    /\ UNCHANGED <<options, qmanager, q, pool, results, discardq, stats, cache,
                   level, seedst, recst, hist>>

\* parse_cl after the loop: the last group is closed, _check_options refuses
\* an option given twice that is not in REPEATABLE_OPTS, and _parse_payload
\* turns each group into (name, params, slice) or raises
\* FuzzExceptBadOptions
parse_cl_payload ==
    /\ local.pc = "opts"
    /\ local.opts = <<>>
    /\ LET payload == IF DOMAIN local.payload_cache # {}
                      THEN Append(local.payload, local.payload_cache)
                      ELSE local.payload
           get(p, name) == IF name \in DOMAIN p THEN p[name] ELSE "None"
           default_param(p) == IF "-z" \in DOMAIN p THEN "None" ELSE p["-w"]
           raises(p) ==
               IF "-z" \notin DOMAIN p /\ "-w" \notin DOMAIN p
               THEN "--zP and --slice must be preceded by a -z or -w switch."
               ELSE IF "--zD" \in DOMAIN p /\ default_param(p) # "None"
               THEN "--zD and -z parameters are exclusive."
               ELSE ""
           parsed(p) ==
               [name |-> IF "-z" \in DOMAIN p THEN p["-z"] ELSE "file",
                default |-> IF "--zD" \in DOMAIN p THEN p["--zD"]
                            ELSE default_param(p),
                zP |-> get(p, "--zP"),
                encoder |-> get(p, "--zE"),
                slice |-> get(p, "--slice")]
           REPEATABLE_OPTS ==
               {"--efield", "--field", "--prefilter", "--recipe", "-z", "--zP",
                "--zD", "--slice", "payload", "-w", "-b", "-H", "-p"}
           repeated == {x \in DOMAIN local.optsd :
                           x \notin REPEATABLE_OPTS /\ Len(local.optsd[x]) > 1}
           bad == {i \in 1..Len(payload) : raises(payload[i]) # ""}
           first == CHOOSE i \in bad : \A j \in bad : i <= j
       IN /\ hist' = [hist EXCEPT !.parsed =
                IF repeated # {}
                THEN [error |-> "Bad usage: Only one option could be specified at the same time.",
                      payloads |-> <<>>]
                ELSE IF bad # {}
                THEN [error |-> raises(payload[first]), payloads |-> <<>>]
                ELSE [error |-> "",
                      payloads |-> [i \in 1..Len(payload) |->
                                       parsed(payload[i])]]]
          /\ local' = [local EXCEPT !.pc = "parsed", !.payload = payload]
    /\ UNCHANGED <<options, qmanager, q, pool, results, discardq, stats, cache,
                   level, seedst, recst>>

\* the command line as getopt returns it: up to MaxOptions payload options,
\* the i-th of them with a value of its own (a payload name without commas
\* for -z, a file for -w, a well-formed modifier value otherwise)
SpecCommandLine ==
    /\ \E n \in 0..MaxOptions :
          \E opts \in [1..n -> {"-z", "--zP", "--slice", "-w", "--zD", "--zE"}] :
             \E o \in PipeOptions :
                /\ o.dirs = {} /\ ~o.baseline
                /\ Constructed(o)
                /\ recst = [pc |-> "idle", cur |-> NoItem]
                /\ local = [pc |-> "opts",
                            opts |-> [i \in 1..n |->
                                         [option |-> opts[i],
                                          value |-> <<"v1", "v2", "v3", "v4", "v5",
                                                      "v6">>[i]]],
                            payload_cache |-> <<>>,
                            optsd |-> <<>>,
                            payload |-> <<>>]
                /\ hist = [argv |-> opts,
                           parsed |-> [error |-> "", payloads |-> <<>>]]
    /\ [][parse_cl_option \/ parse_cl_payload]_vars

\* -------------------------------------------------------------- claim C35
\* C35: a command line with a modifier (--zP, --zD, --zE, --slice) before
\* any -z/-w is rejected with a bad-options error; every other command line
\* is accepted, the number of payload groups equals the number of -z/-w
\* options, and each group carries exactly the modifiers given between its
\* -z/-w and the next one, with their values.
C35_ModifiersBoundToPayload ==
    local.pc = "parsed" =>
       LET argv == hist.argv
           n == Len(argv)
           value(i) == <<"v1", "v2", "v3", "v4", "v5", "v6">>[i]
           switches == {i \in 1..n : argv[i] \in {"-z", "-w"}}
           owner(j) == CHOOSE i \in switches :
                          i < j /\ \A k \in switches : k < j => k <= i
           orphan == \E j \in 1..n :
                        j \notin switches /\ \A i \in switches : i > j
           ordinal(i) == Cardinality({k \in switches : k <= i})
           given(i, m) == {j \in 1..n : /\ argv[j] = m /\ j \notin switches
                                        /\ j > i /\ owner(j) = i}
           last(i, m) == CHOOSE j \in given(i, m) :
                            \A k \in given(i, m) : k <= j
           bound(i, m) == IF given(i, m) = {} THEN "None"
                          ELSE value(last(i, m))
       IN IF orphan
          THEN hist.parsed.error # ""
          ELSE /\ hist.parsed.error = ""
               /\ Len(hist.parsed.payloads) = Cardinality(switches)
               /\ \A i \in switches :
                     LET p == hist.parsed.payloads[ordinal(i)]
                     IN /\ p.name = IF argv[i] = "-z" THEN value(i) ELSE "file"
                        /\ p.zP = bound(i, "--zP")
                        /\ p.encoder = bound(i, "--zE")
                        /\ p.slice = bound(i, "--slice")
                        /\ p.default = IF given(i, "--zD") # {}
                                       THEN bound(i, "--zD")
                                       ELSE IF argv[i] = "-w" THEN value(i)
                                       ELSE "None"

\* ========================================================= headers plugin
\* script "headers" selects the plugin Headers.  Every response of the server
\* carries one uncommon header: the index page spells it X-Custom, every
\* other page x-custom.  local.kbase is kbase["http.response.headers.uncommon"],
\* which the plugin object shared by the executors reads and appends to.

\* Headers.check_response_header up to the test: the header is uncommon, and
\* is new if its lower-case name is not in the knowledge base
Headers_check_response_header(e) ==
    /\ local.executors[e].pc = "idle"
    /\ local.executors[e].queue # <<>>
    /\ LET it == Head(local.executors[e].queue).it
           header_value == IF it.url = <<"">> THEN "X-Custom" ELSE "x-custom"
           lower == IF header_value = "X-Custom" THEN "x-custom"
                    ELSE header_value
       IN local' = [local EXCEPT !.executors[e] =
                       [pc |-> IF lower \notin local.kbase THEN "new_header"
                               ELSE "results",
                        queue |-> Tail(@.queue), cur |-> it, outs |-> <<>>,
                        queued_dict |-> [queued_requests |-> 0, queued_seeds |-> 0],
                        sent |-> [requests |-> 0, seeds |-> 0]]]
    /\ UNCHANGED <<options, qmanager, q, pool, results, discardq, stats, cache,
                   level, seedst, recst, hist>>

\* Headers.check_response_header after the test: add_information and the
\* append of the lower-case name to the knowledge base
Headers_add_information(e) ==
    /\ local.executors[e].pc = "new_header"
    /\ LET header_value == IF local.executors[e].cur.url = <<"">>
                           THEN "X-Custom" ELSE "x-custom"
           lower == IF header_value = "X-Custom" THEN "x-custom"
                    ELSE header_value
       IN /\ hist' = [hist EXCEPT !.information =
                         Append(@, [header |-> header_value, lower |-> lower,
                                    url |-> local.executors[e].cur.url])]
          /\ local' = [local EXCEPT !.kbase = @ \cup {lower},
                                    !.executors[e].pc = "results"]
    /\ UNCHANGED <<options, qmanager, q, pool, results, discardq, stats, cache,
                   level, seedst, recst>>

SpecHeaders ==
    /\ \E o \in PluginOptions : InitWith([o EXCEPT !.script = "headers"])
    /\ [][\/ SeedQueue_process
          \/ SeedQueue_send_root
          \/ SeedQueue_send_dictionary
          \/ SeedQueue_end_seed
          \/ HttpQueue_process
          \/ HttpQueue_read_http_results
          \/ PluginQueue_process
          \/ \E e \in 1..ConcurrentPlugins : Headers_check_response_header(e)
          \/ \E e \in 1..ConcurrentPlugins : Headers_add_information(e)
          \/ \E e \in 1..ConcurrentPlugins : PluginExecutor_process_results(e)
          \/ RoutingQ_process
          \/ CLIPrinterQ_process]_vars

\* -------------------------------------------------------------- claim C36
\* C36: the headers plugin reports an uncommon response header name,
\* compared without regard to case, at most once during a run, also when
\* several plugin workers process results at the same time.
C36_HeaderReportedOnce ==
    \A i, j \in 1..Len(hist.information) :
       hist.information[i].lower = hist.information[j].lower => i = j

\* ================================================== "=" and "!=" compared
\* a filter of one or two operands, each a comparison "sym = val" or
\* "sym != val" with val a number or a quoted string, and a result
SpecNotEqual ==
    /\ \E n \in 1..2 :
          \E expr \in [1..n ->
                 [op : {"and", "or"}, neg : BOOLEAN,
                  atom : [kind : {"cmp", "ne"}, sym : {"code"},
                          val : {200, 404}, quoted : BOOLEAN]
                         \cup [kind : {"cmp", "ne"}, sym : {"r.url"},
                               val : {<<"a">>, <<"b">>}, quoted : {TRUE}]]],
             code \in {200, 404}, o \in FilterOptions :
             /\ expr[1].op = "and"
             /\ ~o.baseline /\ o.prefilter = <<>> /\ o.filter = <<>>
             /\ Constructed(o)
             /\ recst = [pc |-> "idle", cur |-> NoItem]
             /\ local = [filter_string |-> expr,
                         fuzz_result |-> [code |-> code, url |-> <<"a">>],
                         cache |-> [l \in 1..MaxOperands |-> {}],
                         stack |-> <<>>]
             /\ hist = [evals |-> <<>>]
    /\ [][FuzzResFilter_is_filtered]_vars

\* -------------------------------------------------------------- claim C37
\* C37: "a != b" evaluates to the negation of "a = b" whatever the operands,
\* numbers and quoted strings alike: a filter gives every result the verdict
\* of the filter in which each "a != b" is written "not a = b".
C37_NotEqualNegatesEqual ==
    \A i \in 1..Len(hist.evals) :
       LET expr == local.filter_string
           rewritten == [k \in 1..Len(expr) |->
                           IF expr[k].atom.kind = "ne"
                           THEN [expr[k] EXCEPT !.neg = ~@,
                                                !.atom.kind = "cmp"]
                           ELSE expr[k]]
           parsed == parse_operands(rewritten, 1, hist.evals[i].before)
           value == myreduce(rewritten, parsed.elements, parsed.elements[1], 2)
       IN hist.evals[i].is_filtered = ~value

\* -------------------------------------------------------------- claim C38
\* C38: when PluginExecutor.process_results makes the summary findings
\* "Enqueued N request(s)" and "Enqueued N seed(s)" of a result, N is the
\* number of BACKFEED and SEED items the executor has sent downstream for
\* that result, whatever the other executors did meanwhile.
C38_SummaryCountsSent ==
    \A e \in 1..ConcurrentPlugins :
       LET ex == local.executors[e]
       IN ex.pc = "results" /\ ex.outs = <<>> =>
             /\ ex.queued_dict.queued_requests = ex.sent.requests
             /\ ex.queued_dict.queued_seeds = ex.sent.seeds

\* ============================================================ cancellation
\* variant of Fuzzer_cancel_job: HttpQueue.cancel leaves the pause event as
\* it is
Fuzzer_cancel_job_keeps_pause ==
    /\ ~stats.cancelled
    /\ stats' = [stats EXCEPT !.cancelled = TRUE]
    /\ q' = [q EXCEPT ![qmanager[1]] = put_last(@, NoItem)]
    /\ hist' = [hist EXCEPT !.cancel_job =
                   IF ~local.pause /\ ~SeedMaySend THEN "paused and full"
                   ELSE IF ~local.pause THEN "paused" ELSE "running"]
    /\ UNCHANGED <<options, qmanager, local, pool, results, discardq, cache,
                   level, seedst, recst>>

\* Fuzzer.cancel_job: QueueManager.cancel calls the cancel method of every
\* stage (SeedQueue.cancel sets stats.cancelled, HttpQueue.cancel sets the
\* pause event) and puts the poison value last into the first stage
Fuzzer_cancel_job ==
    /\ ~stats.cancelled
    /\ stats' = [stats EXCEPT !.cancelled = TRUE]
    /\ local' = [local EXCEPT !.pause = TRUE]
    /\ q' = [q EXCEPT ![qmanager[1]] = put_last(@, NoItem)]
    /\ hist' = [hist EXCEPT !.cancel_job =
                   IF ~local.pause /\ ~SeedMaySend THEN "paused and full"
                   ELSE IF ~local.pause THEN "paused" ELSE "running"]
    /\ UNCHANGED <<options, qmanager, pool, results, discardq, cache, level,
                   seedst, recst>>

\* FuzzQueue.run gets the poison value: _cleanup, which for the transport
\* stage sets exit_job, then the poison value goes last into the next stage,
\* or from the last stage into the results queue.  The worker of the seed
\* stage gets its next item only when process has returned
FuzzQueue_cleanup(name) ==
    /\ q[name] # <<>>
    /\ Head1(name) = NoItem
    /\ name = "seed_queue" => seedst.pc = "idle"
    /\ local' = IF name = "transport_queue"
                THEN [local EXCEPT !.exit_job = TRUE] ELSE local
    /\ IF Index(name) = Len(qmanager)
       THEN /\ q' = Dequeue(q, name)
            /\ results' = results \cup {NoItem}
       ELSE /\ q' = SendLastQ(Dequeue(q, name), name, NoItem)
            /\ results' = results
    /\ UNCHANGED <<options, qmanager, pool, discardq, stats, cache, level,
                   seedst, recst, hist>>

\* send_dictionary, one turn of the wordlist loop up to self.send: the test
\* of stats.cancelled, the cache check and pending_fuzz; seedst.pc "send"
\* is the seed stage inside SeedQueue.send
SeedQueue_next_word ==
    /\ seedst.pc = "dict"
    /\ seedst.idx <= Len(options.words)
    /\ ~stats.cancelled
    /\ LET fr == fuzzres_from_options_and_dict(seedst.seed,
                                               options.words[seedst.idx])
       IN IF cached("processed", fr.url)
          THEN /\ seedst' = [seedst EXCEPT !.idx = @ + 1]
               /\ UNCHANGED <<stats, cache>>
          ELSE /\ seedst' = [seedst EXCEPT !.pc = "send"]
               /\ cache' = cache_add(cache, "processed", fr.url)
               /\ stats' = [stats EXCEPT !.pending_fuzz = @ + 1]
    /\ UNCHANGED <<options, qmanager, local, q, pool, results, discardq, level,
                   recst, hist>>

\* SeedQueue.send: the loop is left, whether the run is cancelled or not,
\* only when the output is short enough for the item to be put
SeedQueue_send ==
    /\ seedst.pc = "send"
    /\ SeedMaySend
    /\ LET fr == fuzzres_from_options_and_dict(seedst.seed,
                                               options.words[seedst.idx])
       IN /\ q' = SendQ(q, "seed_queue", fr)
          /\ hist' = [hist EXCEPT !.emitted = @ \cup {fr}]
    /\ seedst' = [seedst EXCEPT !.pc = "dict", !.idx = @ + 1]
    /\ UNCHANGED <<options, qmanager, local, pool, results, discardq, stats,
                   cache, level, recst>>

\* HttpQueue.__read_http_results, one turn of the loop up to self.send: the
\* test of exit_job and the next (result, requeue) pair of the pool;
\* local.fuzz_result is the result the reader thread holds
HttpQueue_next_result ==
    /\ ~local.exit_job
    /\ local.fuzz_result = NoItem
    /\ \E i \in PoolRunning, requeue \in BOOLEAN :
          /\ pool' = pool_after(i, requeue)
          /\ pool' # pool
          /\ local' = IF requeue THEN local
                      ELSE [local EXCEPT !.fuzz_result = Response(pool[i])]
    /\ UNCHANGED <<options, qmanager, q, results, discardq, stats, cache, level,
                   seedst, recst, hist>>

\* HttpQueue.__read_http_results, the rest of the turn: the result is sent
\* downstream or thrown
HttpQueue_send_result ==
    /\ local.fuzz_result # NoItem
    /\ IF throws(local.fuzz_result)
       THEN /\ results' = results \cup {FuzzError(local.fuzz_result)}
            /\ q' = q
       ELSE /\ q' = SendQ(q, "transport_queue", local.fuzz_result)
            /\ results' = results
    /\ local' = [local EXCEPT !.fuzz_result = NoItem]
    /\ UNCHANGED <<options, qmanager, pool, discardq, stats, cache, level,
                   seedst, recst, hist>>

\* one seed, a dictionary longer than concurrent * 5, no routing; the pool
\* returns every result with requeue false; the user pauses and resumes the
\* job and cancels it once, after which the job is not paused again.  The
\* stage workers, the reader thread and the pool keep running: each step
\* that stays possible is taken
SpecCancel ==
    /\ \E o \in
           [transport : {"http/s"}, follow_redirects : {FALSE}, rlevel : {0},
            concurrent : {1}, baseline : {FALSE}, words : {LongDictionary},
            dirs : {{}}, fps : {{}},
            prefilter : {<<>>}, auto_filter : {FALSE}, filter : {<<>>},
            script : {""}, plugin_rlevel : {0}, chain : {0},
            limitrequests : {FALSE}, LIMITREQUESTS_THRESHOLD : {0},
            scanmode : {TRUE}, failing : {{}},
            domain_scope : {FALSE}, link_host : {"h"}] :
          InitWith(o)
    /\ [][\/ SeedQueue_process
          \/ SeedQueue_send_root
          \/ SeedQueue_next_word
          \/ SeedQueue_send
          \/ SeedQueue_end_seed
          \/ HttpQueue_process
          \/ HttpQueue_next_result /\ Len(pool') < Len(pool)
          \/ HttpQueue_send_result
          \/ CLIPrinterQ_process
          \/ Fuzzer_pause_job /\ ~stats.cancelled
          \/ Fuzzer_resume_job
          \/ Fuzzer_cancel_job
          \/ \E name \in StageNames : FuzzQueue_cleanup(name)]_vars
    /\ WF_vars(SeedQueue_process)
    /\ WF_vars(SeedQueue_send_root)
    /\ WF_vars(SeedQueue_next_word)
    /\ WF_vars(SeedQueue_send)
    /\ WF_vars(SeedQueue_end_seed)
    /\ WF_vars(HttpQueue_process)
    /\ WF_vars(HttpQueue_next_result /\ Len(pool') < Len(pool))
    /\ WF_vars(HttpQueue_send_result)
    /\ WF_vars(CLIPrinterQ_process)
    /\ \A name \in StageNames : WF_vars(FuzzQueue_cleanup(name))

\* -------------------------------------------------------------- claim C39
\* C39: once the transport stage has run _cleanup on the poison value, its
\* reader thread sends no further result to the next stage.
C39_NoResultAfterCleanup ==
    [][local.fuzz_result # NoItem /\ local'.fuzz_result = NoItem
          => ~local.exit_job]_vars

\* -------------------------------------------------------------- claim C40
\* C40: a run cancelled while the transport is paused has the pause event
\* set, so the transport stage is released from its wait, and with every
\* worker, the reader thread and the pool running on, the seed stage leaves
\* its emission loop and the poison value reaches the results queue, where
\* the results iterator stops.
C40_CancelledRunTerminates ==
    /\ [](stats.cancelled => local.pause)
    /\ stats.cancelled ~> (seedst.pc = "idle" /\ NoItem \in results)

\* the run was cancelled while the transport was paused and the seed stage
\* found its output too long to send; the seed stage is idle and the poison
\* value is in the results queue
C40_Witness ==
    /\ hist.cancel_job = "paused and full"
    /\ seedst.pc = "idle"
    /\ NoItem \in results

====
